---- MODULE Spec2Model ----
(***************************************************************************)
(* State-machine model of the AIS target prioritizer calculation core      *)
(* (ais-utils.mjs: processDelta, updateDerivedData and the per-target      *)
(* kinematics / alarm classification) together with the target store and  *)
(* the collision profiles held by its callers.                             *)
(*                                                                         *)
(* Conventions of the model                                                *)
(*  - A target is a JavaScript object: a function from field names to      *)
(*    values whose DOMAIN holds exactly the fields that are neither        *)
(*    undefined nor null.  The code reads targets only through `== null`,  *)
(*    `!= null`, `??` and truthiness, which do not tell undefined from     *)
(*    null, so "field is nullish" is "field is not in the DOMAIN".         *)
(*  - Strings that the code inspects character by character (the delta     *)
(*    context, the mmsi) are sequences of one-character strings.           *)
(*  - Latitude and longitude are integers in units of 1/DEG_UNITS degree,  *)
(*    speed is in whole m/s, course in quarter turns (units of PI/2 rad),  *)
(*    times in milliseconds; profile distances are in tenths of a nautical *)
(*    mile and profile speeds in tenths of a knot.                         *)
(***************************************************************************)
EXTENDS Integers, Sequences, FiniteSets, TLC

(***************************************************************************)
(* Program constants (shared/constants.mjs)                                *)
(***************************************************************************)
METERS_PER_NM == 1852

\* KNOTS_PER_M_PER_S = 1.94384, as the fraction KNOTS_NUM / KNOTS_DEN
KNOTS_NUM == 194384

KNOTS_DEN == 100000

\* TARGET_MAX_AGE = 30 * 60 seconds
TARGET_MAX_AGE == 1800

\* LOST_TARGET_WARNING_AGE = 10 * 60 seconds
LOST_TARGET_WARNING_AGE == 600

\* TCPA_MAX_SECONDS = 3 * 3600 seconds
TCPA_MAX_SECONDS == 10800

PRIORITY_ORDER ==
  [DANGER |-> 10000, WARNING |-> 20000, CLOSING |-> 30000,
   DIVERGING |-> 40000, NO_RANGE |-> 50000]

PRIORITY_WEIGHTS ==
  [HAS_TCPA_BONUS |-> 1000, TCPA_WEIGHT |-> 1000, CPA_WEIGHT |-> 2000,
   RANGE_WEIGHT_PER_NM |-> 100, RANGE_WEIGHT_MAX |-> 5000,
   ORDER_MIN |-> -99999, ORDER_MAX |-> 99999]

(***************************************************************************)
(* JavaScript objects                                                      *)
(***************************************************************************)
\* obj.f is neither undefined nor null
Has(obj, f) == f \in DOMAIN obj

\* obj.f = v, for a value v that is not nullish
Put(obj, f, v) == [k \in (DOMAIN obj) \cup {f} |-> IF k = f THEN v ELSE obj[k]]

\* obj.f = null (or undefined)
Del(obj, f) == [k \in (DOMAIN obj) \ {f} |-> obj[k]]

\* obj.f = src.g, where src.g may be nullish
Assign(obj, f, src, g) == IF Has(src, g) THEN Put(obj, f, src[g]) ELSE Del(obj, f)

\* JavaScript truthiness of obj.f for a string field: present and not empty
TruthyStr(obj, f) == Has(obj, f) /\ obj[f] # ""

\* the same for a string held as a sequence of characters
TruthyChars(obj, f) == Has(obj, f) /\ obj[f] # <<>>

\* JavaScript truthiness of obj.f for a boolean field
TruthyBool(obj, f) == Has(obj, f) /\ obj[f]

(***************************************************************************)
(* Arithmetic helpers: Math.round, Math.max, Math.min, Math.abs            *)
(***************************************************************************)
Max(a, b) == IF a >= b THEN a ELSE b

Min(a, b) == IF a <= b THEN a ELSE b

Abs(a) == IF a < 0 THEN -a ELSE a

\* floor(n / d) for d > 0 (TLC's \div is the floor division)
FloorDiv(n, d) == n \div d

\* Math.round(n / d) for d > 0: the nearest integer, a tie going up
RoundDiv(n, d) == FloorDiv(n + d \div 2, d)

(***************************************************************************)
(* Strings as sequences of characters                                      *)
(***************************************************************************)
Digits == {"0", "1", "2", "3", "4", "5", "6", "7", "8", "9"}

\* str.slice(-n): the last n characters, the whole string when it is shorter
SliceLast(str, n) ==
  IF Len(str) <= n THEN str ELSE SubSeq(str, Len(str) - n + 1, Len(str))

\* /^[0-9]{9}$/.test(str)
IsMmsi(str) == Len(str) = 9 /\ \A i \in 1..9 : str[i] \in Digits

\* str.startsWith(prefix)
StartsWith(str, prefix) ==
  Len(str) >= Len(prefix) /\ SubSeq(str, 1, Len(prefix)) = prefix

\* the first index at which /imo/i matches in str, 0 when it does not match
ImoIndex(str) ==
  LET hits == {i \in 1..(Len(str) - 2) :
                 /\ str[i] \in {"i", "I"}
                 /\ str[i + 1] \in {"m", "M"}
                 /\ str[i + 2] \in {"o", "O"}}
  IN IF hits = {} THEN 0 ELSE CHOOSE i \in hits : \A j \in hits : i <= j

\* str.replace(/imo/i, ""): the first match removed
ReplaceImo(str) ==
  LET i == ImoIndex(str)
  IN IF i = 0 THEN str
     ELSE SubSeq(str, 1, i - 1) \o SubSeq(str, i + 3, Len(str))

(***************************************************************************)
(* processDelta (ais-utils.mjs)                                            *)
(***************************************************************************)
\* the empty object {}
EmptyObj == [k \in {} |-> 0]

\* value.value.communication?.callsignVhf is truthy
HasCallsign(v) ==
  Has(v, "communication") /\ TruthyStr(v.communication, "callsignVhf")

\* value.value.registrations?.imo is truthy
HasImo(v) == Has(v, "registrations") /\ TruthyChars(v.registrations, "imo")

\* case "": the first truthy one of name, callsign and imo is written
ApplyRoot(target, v) ==
  IF TruthyStr(v, "name") THEN Put(target, "name", v.name)
  ELSE IF HasCallsign(v) THEN Put(target, "callsign", v.communication.callsignVhf)
  ELSE IF HasImo(v) THEN Put(target, "imo", ReplaceImo(v.registrations.imo))
  ELSE target

\* case "navigation.position" without the assignment of lastSeenDate
ApplyPositionUnstamped(target, v, update) ==
  LET t1 == Assign(target, "latitude", v, "latitude")
      t2 == Assign(t1, "longitude", v, "longitude")
  IN Put(t2, "needsRecalc", TRUE)

\* case "navigation.position": latitude, longitude, lastSeenDate, needsRecalc.
\* new Date(update.timestamp) of a missing timestamp is an Invalid Date, whose
\* arithmetic is NaN exactly as that of an undefined lastSeenDate: the field
\* is then absent.
ApplyPosition(target, v, update) ==
  LET t1 == Assign(target, "latitude", v, "latitude")
      t2 == Assign(t1, "longitude", v, "longitude")
      t3 == Assign(t2, "lastSeenDate", update, "timestamp")
  IN Put(t3, "needsRecalc", TRUE)

\* case "atonType"
ApplyAtonType(target, v) ==
  LET t1 == Assign(target, "typeId", v, "id")
      t2 == Assign(t1, "type", v, "name")
  IN IF ~Has(t2, "status") THEN Put(t2, "status", "default") ELSE t2

\* target.f = value.value ? 1 : 0 (offPosition, virtual)
ApplyFlag(target, f, value) ==
  Put(target, f, IF TruthyBool(value, "value") THEN 1 ELSE 0)

\* one iteration of the inner loop: the switch on value.path
ApplyValue(target, value, update) ==
  LET path == value.path
      v == IF Has(value, "value") THEN value.value ELSE EmptyObj
  IN CASE path = "" -> ApplyRoot(target, v)
       [] path = "navigation.position" -> ApplyPosition(target, v, update)
       [] path = "navigation.courseOverGroundTrue" ->
            Put(Assign(target, "cog", value, "value"), "needsRecalc", TRUE)
       [] path = "navigation.speedOverGround" ->
            Put(Assign(target, "sog", value, "value"), "needsRecalc", TRUE)
       [] path = "navigation.magneticVariation" -> Assign(target, "magvar", value, "value")
       [] path = "navigation.headingTrue" -> Assign(target, "hdg", value, "value")
       [] path = "navigation.rateOfTurn" -> Assign(target, "rot", value, "value")
       [] path = "design.aisShipType" ->
            Assign(Assign(target, "typeId", v, "id"), "type", v, "name")
       [] path = "navigation.state" -> Assign(target, "status", value, "value")
       [] path = "sensors.ais.class" -> Assign(target, "aisClass", value, "value")
       [] path = "navigation.destination.commonName" ->
            Assign(target, "destination", value, "value")
       [] path = "design.length" -> Assign(target, "length", v, "overall")
       [] path = "design.beam" -> Assign(target, "beam", value, "value")
       [] path = "design.draft" -> Assign(target, "draft", v, "current")
       [] path = "atonType" -> ApplyAtonType(target, v)
       [] path = "offPosition" -> ApplyFlag(target, "isOffPosition", value)
       [] path = "virtual" -> ApplyFlag(target, "isVirtual", value)
       [] OTHER -> target

\* for (const value of values): values i..Len(values) of one update
RECURSIVE ApplyValues(_, _, _, _)
ApplyValues(target, values, i, update) ==
  IF i > Len(values) THEN target
  ELSE ApplyValues(ApplyValue(target, values[i], update), values, i + 1, update)

\* for (const update of updates): an update without values is skipped
RECURSIVE ApplyUpdates(_, _, _)
ApplyUpdates(target, updates, i) ==
  IF i > Len(updates) THEN target
  ELSE LET update == updates[i]
           next == IF Has(update, "values")
                     THEN ApplyValues(target, update.values, 1, update)
                     ELSE target
       IN ApplyUpdates(next, updates, i + 1)

\* the object a delta of an unknown mmsi starts from
NewTarget(mmsi) == [sog |-> 0, cog |-> 0, mmsi |-> mmsi, needsRecalc |-> TRUE]

\* processDelta without the test of the nine digits
processDeltaAnyContext(delta, tgts) ==
  IF ~TruthyChars(delta, "context") THEN [ret |-> <<>>, targets |-> tgts]
  ELSE
    LET mmsi == SliceLast(delta.context, 9)
        known == mmsi \in DOMAIN tgts
        t0 == IF known THEN tgts[mmsi] ELSE NewTarget(mmsi)
        t1 == Put(t0, "context", delta.context)
    IN IF ~Has(delta, "updates")
         THEN [ret |-> mmsi,
               targets |-> IF known THEN [tgts EXCEPT ![mmsi] = t1] ELSE tgts]
         ELSE [ret |-> mmsi,
               targets |-> Put(tgts, mmsi, ApplyUpdates(t1, delta.updates, 1))]

\* processDelta with the merge starting from a new object for a known mmsi too
processDeltaFromNewTarget(delta, tgts) ==
  IF ~TruthyChars(delta, "context") THEN [ret |-> <<>>, targets |-> tgts]
  ELSE
    LET mmsi == SliceLast(delta.context, 9)
    IN IF mmsi = <<>> \/ ~IsMmsi(mmsi) THEN [ret |-> <<>>, targets |-> tgts]
       ELSE
         LET t1 == Put(NewTarget(mmsi), "context", delta.context)
         IN IF ~Has(delta, "updates")
              THEN [ret |-> mmsi, targets |-> tgts]
              ELSE [ret |-> mmsi,
                    targets |-> Put(tgts, mmsi, ApplyUpdates(t1, delta.updates, 1))]

\* processDelta(delta, targets): the value returned ("ret", <<>> for null) and
\* the map afterwards ("targets").  A target already in the map is the object
\* the function writes to, so its context changes even when the delta has no
\* update list; a new object reaches the map only through targets.set.
processDelta(delta, tgts) ==
  IF ~TruthyChars(delta, "context") THEN [ret |-> <<>>, targets |-> tgts]
  ELSE
    LET mmsi == SliceLast(delta.context, 9)
    IN IF mmsi = <<>> \/ ~IsMmsi(mmsi) THEN [ret |-> <<>>, targets |-> tgts]
       ELSE
         LET known == mmsi \in DOMAIN tgts
             t0 == IF known THEN tgts[mmsi] ELSE NewTarget(mmsi)
             t1 == Put(t0, "context", delta.context)
         IN IF ~Has(delta, "updates")
              THEN [ret |-> mmsi,
                    targets |-> IF known THEN [tgts EXCEPT ![mmsi] = t1] ELSE tgts]
              ELSE [ret |-> mmsi,
                    targets |-> Put(tgts, mmsi, ApplyUpdates(t1, delta.updates, 1))]

(***************************************************************************)
(* Kinematics (ais-utils.mjs): projection, range, bearing, CPA and TCPA    *)
(***************************************************************************)
\* latitude and longitude count units of 1/DEG_UNITS degree
DEG_UNITS == 11112

\* the self latitudes of the model lie within LatBand units of the equator
LatBand == 100

\* largest k in lo..hi with k * k <= n (lo * lo <= n < (hi + 1) * (hi + 1))
RECURSIVE SqrtSearch(_, _, _)
SqrtSearch(n, lo, hi) ==
  IF lo >= hi THEN lo
  ELSE LET mid == (lo + hi + 1) \div 2
       IN IF mid * mid <= n THEN SqrtSearch(n, mid, hi)
          ELSE SqrtSearch(n, lo, mid - 1)

\* Math.floor(Math.sqrt(n)) for 0 <= n < 2^31
FloorSqrt(n) == SqrtSearch(n, 0, 46340)

\* Math.round(Math.sqrt(n / d)) for n >= 0, d > 0
RoundSqrtDiv(n, d) == (FloorSqrt((4 * n) \div d) + 1) \div 2

\* Math.sin(cog) and Math.cos(cog) for a course of q quarter turns
SinQ(q) == CASE q % 4 = 0 -> 0 [] q % 4 = 1 -> 1 [] q % 4 = 2 -> 0 [] q % 4 = 3 -> -1

CosQ(q) == CASE q % 4 = 0 -> 1 [] q % 4 = 1 -> 0 [] q % 4 = 2 -> -1 [] q % 4 = 3 -> 0

\* Math.cos(toRadians(clampedSelfLat)): within LatBand units (0.01 degree) of
\* the equator the clamp to +-89.9 degrees does not act and the cosine is 1
\* to within 2e-8; the operator is undefined for any other latitude.
CosClampedSelfLat(selfLat) == CASE Abs(selfLat) <= LatBand -> 1

\* lat * 111120 and lon * 111120 * cos: metres of the planar projection
ProjectY(lat) == lat * (111120 \div DEG_UNITS)

ProjectX(lon, selfLat) == lon * (111120 \div DEG_UNITS) * CosClampedSelfLat(selfLat)

\* getDistanceFromLatLonInMeters, rounded: the great circle on the sphere of
\* radius 6371000 m.  Within a few km of the equator it is
\* 6371000 * PI / 180 / 111120 = 1.000674 times the planar distance, whose
\* square is 1.00135 times the planar square.  Between two points of the
\* equator half a turn apart a = 1, c = PI and the distance is 6371000 * PI =
\* 20015086.8 m.  The operator is undefined for any other pair of points.
RoundedDistance(lat1, lon1, lat2, lon2) ==
  LET dy == ProjectY(lat2) - ProjectY(lat1)
      dx == ProjectY(lon2) - ProjectY(lon1)
      d2 == dx * dx + dy * dy
  IN CASE Abs(lat2 - lat1) <= 2 * LatBand /\ Abs(lon2 - lon1) <= 2 * LatBand ->
            RoundSqrtDiv(d2 + RoundDiv(d2 * 135, 100000), 1)
       [] lat1 = 0 /\ lat2 = 0 /\ Abs(lon2 - lon1) = 180 * DEG_UNITS -> 20015087

\* getRhumbLineBearing, rounded.  Near the equator the Mercator latitude
\* difference equals the latitude difference, so the bearing is
\* atan2(dLon, dLat); the model places targets on the eight principal
\* directions from the self target, where the result is exact, and the
\* operator is undefined elsewhere.  atan2(0, 0) is 0.
RoundedBearing(lat1, lon1, lat2, lon2) ==
  LET dLat == lat2 - lat1
      dLon == lon2 - lon1
  IN CASE dLon = 0 /\ dLat >= 0 -> 0
       [] dLon > 0 /\ dLat = dLon -> 45
       [] dLon > 0 /\ dLat = 0 -> 90
       [] dLon > 0 /\ dLat = -dLon -> 135
       [] dLon = 0 /\ dLat < 0 -> 180
       [] dLon < 0 /\ dLat = dLon -> 225
       [] dLon < 0 /\ dLat = 0 -> 270
       [] dLon < 0 /\ dLat = -dLon -> 315

\* calculateRangeAndBearing with the early return taken before the range and
\* the bearing are set to null
calculateRangeAndBearingKeepsStale(selfTarget, target) ==
  IF \/ ~Has(selfTarget, "latitude") \/ ~Has(selfTarget, "longitude")
     \/ ~Has(target, "latitude") \/ ~Has(target, "longitude")
    THEN target
    ELSE
      LET range == RoundedDistance(selfTarget.latitude, selfTarget.longitude,
                                   target.latitude, target.longitude)
          bearing == RoundedBearing(selfTarget.latitude, selfTarget.longitude,
                                    target.latitude, target.longitude)
      IN Put(Put(target, "range", range), "bearing",
             IF bearing >= 360 THEN 0 ELSE bearing)

\* calculateRangeAndBearing(selfTarget, target)
calculateRangeAndBearing(selfTarget, target) ==
  IF \/ ~Has(selfTarget, "latitude") \/ ~Has(selfTarget, "longitude")
     \/ ~Has(target, "latitude") \/ ~Has(target, "longitude")
    THEN Del(Del(target, "range"), "bearing")
    ELSE
      LET range == RoundedDistance(selfTarget.latitude, selfTarget.longitude,
                                   target.latitude, target.longitude)
          bearing == RoundedBearing(selfTarget.latitude, selfTarget.longitude,
                                    target.latitude, target.longitude)
      IN Put(Put(target, "range", range), "bearing",
             IF bearing >= 360 THEN 0 ELSE bearing)

\* target.cpa = null; target.tcpa = null
NoCpa(target) == Del(Del(target, "cpa"), "tcpa")

\* updateCpa without the test of the three-hour horizon
updateCpaNoHorizon(selfTarget, target) ==
  IF \/ ~Has(selfTarget, "x") \/ ~Has(selfTarget, "y")
     \/ ~Has(selfTarget, "vx") \/ ~Has(selfTarget, "vy")
     \/ ~Has(target, "x") \/ ~Has(target, "y")
     \/ ~Has(target, "vx") \/ ~Has(target, "vy")
    THEN NoCpa(target)
    ELSE
      LET dvx == target.vx - selfTarget.vx
          dvy == target.vy - selfTarget.vy
          dv2 == dvx * dvx + dvy * dvy
          w0x == target.x - selfTarget.x
          w0y == target.y - selfTarget.y
          num == -(w0x * dvx + w0y * dvy)
          cross == w0x * dvy - w0y * dvx
      IN IF dv2 = 0 THEN NoCpa(target)
         ELSE IF num = 0 \/ num < 0 THEN NoCpa(target)
         ELSE Put(Put(target, "cpa", RoundSqrtDiv(cross * cross, dv2)),
                  "tcpa", RoundDiv(num, dv2))

\* updateCpa(selfTarget, target), in exact arithmetic: with dv the relative
\* velocity and w0 the relative position, tcpa = -dot(w0, dv) / dv2 and the
\* distance of the two projected points at that time is |cross(w0, dv)| /
\* sqrt(dv2).  Velocities are whole m/s, so dv2 < 1e-8 is dv2 = 0, and every
\* intermediate value is finite.
updateCpa(selfTarget, target) ==
  IF \/ ~Has(selfTarget, "x") \/ ~Has(selfTarget, "y")
     \/ ~Has(selfTarget, "vx") \/ ~Has(selfTarget, "vy")
     \/ ~Has(target, "x") \/ ~Has(target, "y")
     \/ ~Has(target, "vx") \/ ~Has(target, "vy")
    THEN NoCpa(target)
    ELSE
      LET dvx == target.vx - selfTarget.vx
          dvy == target.vy - selfTarget.vy
          dv2 == dvx * dvx + dvy * dvy
          w0x == target.x - selfTarget.x
          w0y == target.y - selfTarget.y
          num == -(w0x * dvx + w0y * dvy)
          cross == w0x * dvy - w0y * dvx
      IN IF dv2 = 0 THEN NoCpa(target)
         ELSE IF num = 0 \/ num < 0 \/ num > TCPA_MAX_SECONDS * dv2 THEN NoCpa(target)
         ELSE Put(Put(target, "cpa", RoundSqrtDiv(cross * cross, dv2)),
                  "tcpa", RoundDiv(num, dv2))

(***************************************************************************)
(* Alarm classification and priority order (ais-utils.mjs)                 *)
(***************************************************************************)
\* collisionProfiles[collisionProfiles.current][group] can be read: the
\* profile named by current and its threshold group both exist.  Reading a
\* threshold of a missing profile or group throws a TypeError.
HasGroup(profiles, group) ==
  /\ Has(profiles, "current")
  /\ Has(profiles, profiles.current)
  /\ Has(profiles[profiles.current], group)

\* collisionProfiles[collisionProfiles.current][group]
Group(profiles, group) == profiles[profiles.current][group]

\* gate === 0 || (target.sog != null && target.sog > gate / KNOTS_PER_M_PER_S),
\* the gate in tenths of a knot
SpeedGate(target, gate) ==
  \/ gate = 0
  \/ /\ Has(target, "sog")
     /\ target.sog * KNOTS_NUM * 10 > gate * KNOTS_DEN

\* the guard comparison with <= in place of <
GuardAlarmValueInclusive(target, guard) ==
  /\ Has(target, "range")
  /\ target.range * 10 <= guard.range * METERS_PER_NM
  /\ SpeedGate(target, guard.speed)

\* the value assigned to target.guardAlarm, guard.range in tenths of a mile
GuardAlarmValue(target, guard) ==
  /\ Has(target, "range")
  /\ target.range * 10 < guard.range * METERS_PER_NM
  /\ SpeedGate(target, guard.speed)

\* the collision comparison without the test `target.tcpa > 0`
CollisionValueAnyTcpa(target, group) ==
  /\ Has(target, "cpa")
  /\ target.cpa * 10 < group.cpa * METERS_PER_NM
  /\ Has(target, "tcpa")
  /\ target.tcpa < group.tcpa
  /\ SpeedGate(target, group.speed)

\* the value assigned to target.collisionAlarm (group danger) and to
\* target.collisionWarning (group warning), group.cpa in tenths of a mile
CollisionValue(target, group) ==
  /\ Has(target, "cpa")
  /\ target.cpa * 10 < group.cpa * METERS_PER_NM
  /\ Has(target, "tcpa")
  /\ target.tcpa > 0
  /\ target.tcpa < group.tcpa
  /\ SpeedGate(target, group.speed)

\* target.tcpa != null && target.tcpa > 0
HasPositiveTcpa(target) == Has(target, "tcpa") /\ target.tcpa > 0

\* the alarm branch of the if-chain is taken
AnyDangerAlarm(target) ==
  \/ target.guardAlarm
  \/ target.collisionAlarm
  \/ target.sartAlarm
  \/ target.mobAlarm
  \/ target.epirbAlarm

\* the if-chain that sets alarmState and the base order
BaseOrder(target) ==
  IF AnyDangerAlarm(target) THEN PRIORITY_ORDER.DANGER
  ELSE IF target.collisionWarning THEN PRIORITY_ORDER.WARNING
  ELSE IF HasPositiveTcpa(target) THEN PRIORITY_ORDER.CLOSING
  ELSE PRIORITY_ORDER.DIVERGING

\* the if-chain with the warning branch tested before the alarm branch
SetAlarmStateWarningFirst(target) ==
  IF target.collisionWarning THEN Put(target, "alarmState", "warning")
  ELSE IF AnyDangerAlarm(target) THEN Put(target, "alarmState", "danger")
  ELSE Del(target, "alarmState")

\* the alarmState written by the if-chain
SetAlarmState(target) ==
  IF AnyDangerAlarm(target) THEN Put(target, "alarmState", "danger")
  ELSE IF target.collisionWarning THEN Put(target, "alarmState", "warning")
  ELSE Del(target, "alarmState")

\* the alarm type with "cpa" pushed for the collision alarm only
SetAlarmTypeCollisionAlarmOnly(target) ==
  LET alarms ==
        (IF target.guardAlarm THEN <<"guard">> ELSE <<>>)
        \o (IF target.collisionAlarm THEN <<"cpa">> ELSE <<>>)
        \o (IF target.sartAlarm THEN <<"sart">> ELSE <<>>)
        \o (IF target.mobAlarm THEN <<"mob">> ELSE <<>>)
        \o (IF target.epirbAlarm THEN <<"epirb">> ELSE <<>>)
  IN IF Len(alarms) > 0 THEN Put(target, "alarmType", alarms)
     ELSE Del(target, "alarmType")

\* const alarms = []; ... ; alarms.join(",") or null.  The joined string is
\* modelled by the list of its parts.
SetAlarmType(target) ==
  LET alarms ==
        (IF target.guardAlarm THEN <<"guard">> ELSE <<>>)
        \o (IF target.collisionAlarm \/ target.collisionWarning THEN <<"cpa">> ELSE <<>>)
        \o (IF target.sartAlarm THEN <<"sart">> ELSE <<>>)
        \o (IF target.mobAlarm THEN <<"mob">> ELSE <<>>)
        \o (IF target.epirbAlarm THEN <<"epirb">> ELSE <<>>)
  IN IF Len(alarms) > 0 THEN Put(target, "alarmType", alarms)
     ELSE Del(target, "alarmType")

\* the amount subtracted for a positive TCPA: the bonus and the linear part
TcpaAdjust(target) ==
  IF HasPositiveTcpa(target)
    THEN PRIORITY_WEIGHTS.HAS_TCPA_BONUS
         + Max(0, RoundDiv(PRIORITY_WEIGHTS.TCPA_WEIGHT * 3600
                           - PRIORITY_WEIGHTS.TCPA_WEIGHT * target.tcpa, 3600))
    ELSE 0

\* the amount subtracted for a positive CPA
CpaAdjust(target) ==
  IF Has(target, "cpa") /\ target.cpa > 0
    THEN Max(0, RoundDiv(PRIORITY_WEIGHTS.CPA_WEIGHT * 5 * METERS_PER_NM
                         - PRIORITY_WEIGHTS.CPA_WEIGHT * target.cpa,
                         5 * METERS_PER_NM))
    ELSE 0

\* the range adjustment without the cap RANGE_WEIGHT_MAX
RangeAdjustUncapped(target) ==
  IF ~Has(target, "range") THEN PRIORITY_ORDER.NO_RANGE
  ELSE IF target.range > 0
    THEN RoundDiv(PRIORITY_WEIGHTS.RANGE_WEIGHT_PER_NM * target.range, METERS_PER_NM)
  ELSE 0

\* the amount added for the range: proportional and capped when it is known
\* and positive, NO_RANGE when it is unknown
RangeAdjust(target) ==
  IF ~Has(target, "range") THEN PRIORITY_ORDER.NO_RANGE
  ELSE IF target.range > 0
    THEN Min(PRIORITY_WEIGHTS.RANGE_WEIGHT_MAX,
             RoundDiv(PRIORITY_WEIGHTS.RANGE_WEIGHT_PER_NM * target.range, METERS_PER_NM))
  ELSE 0

\* the final clamp
ClampOrder(order) ==
  Max(PRIORITY_WEIGHTS.ORDER_MIN, Min(PRIORITY_WEIGHTS.ORDER_MAX, order))

\* the identity alarms with the prefix "970" tested for all three of them
ClassifyTailOnePrefix(target) ==
  LET t1 == Put(target, "sartAlarm", StartsWith(target.mmsi, <<"9", "7", "0">>))
      t2 == Put(t1, "mobAlarm", StartsWith(target.mmsi, <<"9", "7", "0">>))
      t3 == Put(t2, "epirbAlarm", StartsWith(target.mmsi, <<"9", "7", "0">>))
      t4 == SetAlarmType(SetAlarmState(t3))
      order == BaseOrder(t3) - TcpaAdjust(t3) - CpaAdjust(t3) + RangeAdjust(t3)
  IN Put(t4, "order", ClampOrder(order))

\* the statements of the try block after the three threshold comparisons;
\* none of them reads the profile
ClassifyTail(target) ==
  LET t1 == Put(target, "sartAlarm", StartsWith(target.mmsi, <<"9", "7", "0">>))
      t2 == Put(t1, "mobAlarm", StartsWith(target.mmsi, <<"9", "7", "2">>))
      t3 == Put(t2, "epirbAlarm", StartsWith(target.mmsi, <<"9", "7", "4">>))
      t4 == SetAlarmType(SetAlarmState(t3))
      order == BaseOrder(t3) - TcpaAdjust(t3) - CpaAdjust(t3) + RangeAdjust(t3)
  IN Put(t4, "order", ClampOrder(order))

\* evaluateAlarms with a collision warning that, once raised, stays raised
evaluateAlarmsWarningLatched(target, profiles) ==
  IF Has(target, "range") /\ ~HasGroup(profiles, "guard") THEN target
  ELSE
    LET t1 == Put(target, "guardAlarm",
                  Has(target, "range") /\ GuardAlarmValue(target, Group(profiles, "guard")))
    IN IF Has(t1, "cpa") /\ ~HasGroup(profiles, "danger") THEN t1
       ELSE
         LET t2 == Put(t1, "collisionAlarm",
                       Has(t1, "cpa") /\ CollisionValue(t1, Group(profiles, "danger")))
         IN IF Has(t2, "cpa") /\ ~HasGroup(profiles, "warning") THEN t2
            ELSE ClassifyTail(
                   Put(t2, "collisionWarning",
                       \/ Has(t2, "collisionWarning") /\ t2.collisionWarning
                       \/ Has(t2, "cpa") /\ CollisionValue(t2, Group(profiles, "warning"))))

\* evaluateAlarms(target, collisionProfiles).  The body is one try block: a
\* comparison that has to read a threshold of a missing profile or group
\* throws, the catch logs, and the target keeps what was written before the
\* throw.  `&&` reads the threshold only when the range (resp. the CPA) is
\* not null.
evaluateAlarms(target, profiles) ==
  IF Has(target, "range") /\ ~HasGroup(profiles, "guard") THEN target
  ELSE
    LET t1 == Put(target, "guardAlarm",
                  Has(target, "range") /\ GuardAlarmValue(target, Group(profiles, "guard")))
    IN IF Has(t1, "cpa") /\ ~HasGroup(profiles, "danger") THEN t1
       ELSE
         LET t2 == Put(t1, "collisionAlarm",
                       Has(t1, "cpa") /\ CollisionValue(t1, Group(profiles, "danger")))
         IN IF Has(t2, "cpa") /\ ~HasGroup(profiles, "warning") THEN t2
            ELSE ClassifyTail(
                   Put(t2, "collisionWarning",
                       Has(t2, "cpa") /\ CollisionValue(t2, Group(profiles, "warning"))))

\* the catch block of evaluateAlarms is reached (and logs the error): a
\* threshold of a missing profile or group had to be read
evaluateAlarmsCaught(target, profiles) ==
  \/ Has(target, "range") /\ ~HasGroup(profiles, "guard")
  \/ Has(target, "cpa") /\ ~HasGroup(profiles, "danger")
  \/ Has(target, "cpa") /\ ~HasGroup(profiles, "warning")

(***************************************************************************)
(* updateSingleTargetDerivedData and updateDerivedData (ais-utils.mjs)     *)
(***************************************************************************)
\* the value of Math.round((Date.now() - target.lastSeenDate) / 1000) when the
\* target has no valid lastSeenDate: NaN, which compares false with anything
NaN == -1

\* target.f ?? 0
OrZero(target, f) == IF Has(target, f) THEN target[f] ELSE 0

\* the age in seconds written to target.lastSeen at the clock value clock (ms)
Age(target, clock) ==
  IF Has(target, "lastSeenDate")
    THEN Max(0, RoundDiv(clock - target.lastSeenDate, 1000))
    ELSE NaN

\* a > b for an age a that may be NaN
AgeAbove(a, b) == a # NaN /\ a > b

\* the projection and velocity written first: y, x, vy, vx
SetProjection(target, selfTarget) ==
  LET lat == OrZero(target, "latitude")
      lon == OrZero(target, "longitude")
      sog == OrZero(target, "sog")
      cog == OrZero(target, "cog")
      selfLat == OrZero(selfTarget, "latitude")
      t1 == Put(target, "y", ProjectY(lat))
      t2 == Put(t1, "x", ProjectX(lon, selfLat))
      t3 == Put(t2, "vy", sog * CosQ(cog))
  IN Put(t3, "vx", sog * SinQ(cog))

\* lastSeen, isLost and isValid, written last
SetAge(target, clock) ==
  LET lastSeen == Age(target, clock)
      t1 == Put(target, "lastSeen", lastSeen)
      t2 == Put(t1, "isLost", AgeAbove(lastSeen, LOST_TARGET_WARNING_AGE))
  IN Put(t2, "isValid",
         ~(\/ ~Has(target, "latitude")
           \/ ~Has(target, "longitude")
           \/ AgeAbove(lastSeen, TARGET_MAX_AGE)))

\* updateSingleTargetDerivedData with range, CPA and alarms computed only for
\* a target that has a position
updateSingleTargetDerivedDataPositionedOnly(target, selfTarget, profiles, clock) ==
  LET t1 == SetProjection(target, selfTarget)
      t2 == IF /\ target.mmsi # selfTarget.mmsi
               /\ Has(target, "latitude") /\ Has(target, "longitude")
              THEN evaluateAlarms(
                     updateCpa(selfTarget, calculateRangeAndBearing(selfTarget, t1)),
                     profiles)
              ELSE t1
  IN SetAge(t2, clock)

\* updateSingleTargetDerivedData(target, selfTarget, collisionProfiles,
\* TARGET_MAX_AGE) at the clock value clock.  selfTarget is the self object
\* as it is at the call (for another target: after its own update).  The
\* display strings (cpaFormatted, ..., mmsiCountryCode) are written between
\* the age and isValid, are read by no computation and are left out.
updateSingleTargetDerivedData(target, selfTarget, profiles, clock) ==
  LET t1 == SetProjection(target, selfTarget)
      t2 == IF target.mmsi # selfTarget.mmsi
              THEN evaluateAlarms(
                     updateCpa(selfTarget, calculateRangeAndBearing(selfTarget, t1)),
                     profiles)
              ELSE t1
  IN SetAge(t2, clock)

\* updateDerivedData with the second test on the position of the self target
\* in place of its isValid
updateDerivedDataPositionTest(tgts, selfMmsi, profiles, clock) ==
  IF selfMmsi \notin DOMAIN tgts THEN [threw |-> TRUE, targets |-> tgts]
  ELSE
    LET selfTarget == updateSingleTargetDerivedData(tgts[selfMmsi], tgts[selfMmsi],
                                                    profiles, clock)
    IN IF ~Has(selfTarget, "latitude") \/ ~Has(selfTarget, "longitude")
         THEN [threw |-> TRUE, targets |-> [tgts EXCEPT ![selfMmsi] = selfTarget]]
         ELSE [threw |-> FALSE,
               targets |->
                 [mmsi \in DOMAIN tgts |->
                    IF mmsi # selfTarget.mmsi
                      THEN updateSingleTargetDerivedData(tgts[mmsi], selfTarget,
                                                         profiles, clock)
                      ELSE selfTarget]]

\* updateDerivedData with the other targets updated before the self target
\* is tested
updateDerivedDataLateTest(tgts, selfMmsi, profiles, clock) ==
  IF selfMmsi \notin DOMAIN tgts THEN [threw |-> TRUE, targets |-> tgts]
  ELSE
    LET selfTarget == updateSingleTargetDerivedData(tgts[selfMmsi], tgts[selfMmsi],
                                                    profiles, clock)
    IN [threw |-> ~selfTarget.isValid,
        targets |-> [mmsi \in DOMAIN tgts |->
                       IF mmsi # selfTarget.mmsi
                         THEN updateSingleTargetDerivedData(tgts[mmsi], selfTarget,
                                                            profiles, clock)
                         ELSE selfTarget]]

\* updateDerivedData with the error of a failed classification passed on to
\* the caller instead of being caught in evaluateAlarms
updateDerivedDataFailureRaises(tgts, selfMmsi, profiles, clock) ==
  IF selfMmsi \notin DOMAIN tgts THEN [threw |-> TRUE, targets |-> tgts]
  ELSE
    LET selfTarget == updateSingleTargetDerivedData(tgts[selfMmsi], tgts[selfMmsi],
                                                    profiles, clock)
        done == [mmsi \in DOMAIN tgts |->
                   IF mmsi # selfTarget.mmsi
                     THEN updateSingleTargetDerivedData(tgts[mmsi], selfTarget,
                                                        profiles, clock)
                     ELSE selfTarget]
    IN IF ~selfTarget.isValid
         THEN [threw |-> TRUE, targets |-> [tgts EXCEPT ![selfMmsi] = selfTarget]]
         ELSE [threw |-> \E mmsi \in DOMAIN tgts \ {selfMmsi} :
                           evaluateAlarmsCaught(done[mmsi], profiles),
               targets |-> done]

\* updateDerivedData(targets, targets.get(selfMmsi), collisionProfiles,
\* TARGET_MAX_AGE): "threw" tells whether the no-fix error was raised,
\* "targets" is the map afterwards.
updateDerivedData(tgts, selfMmsi, profiles, clock) ==
  IF selfMmsi \notin DOMAIN tgts THEN [threw |-> TRUE, targets |-> tgts]
  ELSE
    LET selfTarget == updateSingleTargetDerivedData(tgts[selfMmsi], tgts[selfMmsi],
                                                    profiles, clock)
    IN IF ~selfTarget.isValid
         THEN [threw |-> TRUE, targets |-> [tgts EXCEPT ![selfMmsi] = selfTarget]]
         ELSE [threw |-> FALSE,
               targets |->
                 [mmsi \in DOMAIN tgts |->
                    IF mmsi # selfTarget.mmsi
                      THEN updateSingleTargetDerivedData(tgts[mmsi], selfTarget,
                                                         profiles, clock)
                      ELSE selfTarget]]

(***************************************************************************)
(* Inputs of the model                                                     *)
(***************************************************************************)
\* the mmsi of the own vessel (selfMmsi) and of the other targets
SelfMmsi == <<"2", "3", "0", "0", "0", "0", "0", "0", "1">>

VesselMmsi == <<"2", "4", "4", "0", "0", "0", "0", "0", "2">>

SartMmsi == <<"9", "7", "0", "0", "0", "0", "0", "0", "3">>

MobMmsi == <<"9", "7", "2", "0", "0", "0", "0", "0", "4">>

EpirbMmsi == <<"9", "7", "4", "0", "0", "0", "0", "0", "5">>

OtherMmsis == {VesselMmsi, SartMmsi, MobMmsi, EpirbMmsi}

\* "vessels." in front of an mmsi
VesselsPrefix == <<"v", "e", "s", "s", "e", "l", "s", ".">>

Ctx(mmsi) == VesselsPrefix \o mmsi

\* contexts that name no target: "", "vessels.self", eight digits only, and
\* nine characters of which one is a letter
BadContexts ==
  << <<>>,
     VesselsPrefix \o <<"s", "e", "l", "f">>,
     <<"2", "4", "4", "0", "0", "0", "0", "2">>,
     VesselsPrefix \o <<"2", "4", "4", "0", "0", "0", "0", "0", "x">> >>

\* the clock is advanced at most MaxAdvances times
MaxAdvances == 1

\* the clock step (ms): half a second more than TARGET_MAX_AGE
ClockSteps == {1800500}

\* a report timestamp may run ahead of the clock by this much (ms)
ClockSkew == 3000

Pos(lat, lon) == [latitude |-> lat, longitude |-> lon]

Val(path, v) == [path |-> path, value |-> v]

\* a value that is null
NullVal(path) == [path |-> path]

Upd(ts, values) == [timestamp |-> ts, values |-> values]

\* the update lists a delta of the own vessel carries at the clock value clock
SelfUpdates(clock) ==
  << <<Upd(clock, <<Val("navigation.position", Pos(0, 0))>>)>>,
     <<Upd(clock, <<Val("navigation.speedOverGround", 2)>>)>> >>

\* the update lists of the ordinary vessel
VesselUpdates(clock) ==
  << <<>>,
     <<Upd(clock, <<Val("navigation.position", Pos(100, 0))>>)>>,
     <<Upd(clock + ClockSkew, <<Val("navigation.position", [latitude |-> 50])>>)>>,
     <<Upd(clock, <<Val("navigation.speedOverGround", 1),
                    Val("navigation.courseOverGroundTrue", 2)>>)>>,
     <<Upd(clock, <<Val("environment.wind.speedTrue", 7)>>)>> >>

UpdatesOf(mmsi, clock) ==
  IF mmsi = SelfMmsi THEN SelfUpdates(clock) ELSE VesselUpdates(clock)

\* the collision profiles (distances in tenths of a nautical mile, tcpa in
\* seconds, speeds in tenths of a knot), with the profile named by current
Profiles(current) ==
  [current |-> current,
   anchor |-> [warning |-> [cpa |-> 0, tcpa |-> 0, speed |-> 0],
               danger |-> [cpa |-> 0, tcpa |-> 0, speed |-> 0],
               guard |-> [range |-> 5, speed |-> 0]],
   harbor |-> [warning |-> [cpa |-> 5, tcpa |-> 600, speed |-> 5],
               danger |-> [cpa |-> 1, tcpa |-> 300, speed |-> 30],
               guard |-> [range |-> 0, speed |-> 0]],
   coastal |-> [warning |-> [cpa |-> 20, tcpa |-> 1800, speed |-> 0],
                danger |-> [cpa |-> 10, tcpa |-> 900, speed |-> 0],
                guard |-> [range |-> 5, speed |-> 10]],
   offshore |-> [warning |-> [cpa |-> 60, tcpa |-> 7200, speed |-> 0],
                 danger |-> [cpa |-> 20, tcpa |-> 1800, speed |-> 30],
                 guard |-> [range |-> 0, speed |-> 0]]]

ProfileNames == {"anchor", "harbor", "coastal", "offshore"}

\* profiles that PUT /setCollisionProfiles accepts although the classification
\* cannot read its thresholds from them: current names no profile, and the
\* current profile has no danger group
ProfilesOfUnknownName == Profiles("river")

ProfilesWithoutDanger ==
  [Profiles("harbor") EXCEPT
     !.harbor = [warning |-> [cpa |-> 5, tcpa |-> 600, speed |-> 5],
                 guard |-> [range |-> 5, speed |-> 0]]]

\* the active profile has its guard, danger and warning groups
ProfileComplete(profiles) ==
  /\ profiles.current \in ProfileNames
  /\ {"guard", "danger", "warning"} \subseteq DOMAIN profiles[profiles.current]

(***************************************************************************)
(* The state machine                                                       *)
(***************************************************************************)
VARIABLES
  targets,            \* the Map of targets, keyed by mmsi
  collisionProfiles,  \* the collision profiles of the plugin / the web page
  now,                \* Date.now(), in ms
  advances,           \* how often the clock has been advanced
  last                \* the last call and what it returned or raised

vars == <<targets, collisionProfiles, now, advances, last>>

\* the empty Map
EmptyMap == [m \in {} |-> EmptyObj]

Init ==
  /\ targets = EmptyMap
  /\ collisionProfiles = Profiles("harbor")
  /\ now = 0
  /\ advances = 0
  /\ last = [op |-> "start"]

\* the subscription callback / handleDelta: processDelta(delta, targets)
ProcessDelta(delta) ==
  LET r == processDelta(delta, targets)
  IN /\ targets' = r.targets
     /\ last' = [op |-> "processDelta", ret |-> r.ret]
     /\ UNCHANGED <<collisionProfiles, now, advances>>

\* the deltas whose context names the target mmsi: without an update list, and
\* with each of the update lists of that target
DeltasOf(mmsi, clock) ==
  <<[context |-> Ctx(mmsi)]>>
  \o [i \in 1..Len(UpdatesOf(mmsi, clock)) |->
        [context |-> Ctx(mmsi), updates |-> UpdatesOf(mmsi, clock)[i]]]

\* the deltas without context or with a context that names no target
DeltasOfNothing(clock) ==
  <<[updates |-> VesselUpdates(clock)[2]]>>
  \o [i \in 1..Len(BadContexts) |->
        [context |-> BadContexts[i], updates |-> VesselUpdates(clock)[2]]]

\* a delta whose context names a target
DeltaOfTarget ==
  \E mmsi \in {SelfMmsi, VesselMmsi} :
    \E i \in 1..Len(DeltasOf(mmsi, now)) : ProcessDelta(DeltasOf(mmsi, now)[i])

\* a delta without context or with a context that names no target
DeltaOfNothing ==
  \E i \in 1..Len(DeltasOfNothing(now)) : ProcessDelta(DeltasOfNothing(now)[i])

\* the tick: updateDerivedData(targets, targets.get(selfMmsi), ...)
UpdateDerivedData ==
  LET r == updateDerivedData(targets, SelfMmsi, collisionProfiles, now)
  IN /\ targets' = r.targets
     /\ last' = [op |-> "updateDerivedData", threw |-> r.threw]
     /\ UNCHANGED <<collisionProfiles, now, advances>>

\* PUT /setCollisionProfiles: the new profiles are taken over when current
\* and the four profiles are present
setCollisionProfiles(new) ==
  /\ Has(new, "current") /\ Has(new, "anchor") /\ Has(new, "harbor")
  /\ Has(new, "coastal") /\ Has(new, "offshore")
  /\ collisionProfiles' = new
  /\ last' = [op |-> "setCollisionProfiles"]
  /\ UNCHANGED <<targets, now, advances>>

SetCollisionProfiles ==
  \/ setCollisionProfiles(Profiles("anchor"))
  \/ setCollisionProfiles(ProfilesOfUnknownName)

\* time passes
AdvanceClock ==
  /\ advances < MaxAdvances
  /\ \E step \in ClockSteps : now' = now + step
  /\ advances' = advances + 1
  /\ last' = [op |-> "clock"]
  /\ UNCHANGED <<targets, collisionProfiles>>

Next ==
  \/ DeltaOfTarget
  \/ DeltaOfNothing
  \/ UpdateDerivedData
  \/ SetCollisionProfiles
  \/ AdvanceClock

Spec == Init /\ [][Next]_vars

(***************************************************************************)
(* C10: a delta whose context names no target                              *)
(***************************************************************************)
\* every delta of the model at the clock value clock
AllDeltas(clock) ==
  DeltasOfNothing(clock) \o DeltasOf(SelfMmsi, clock) \o DeltasOf(VesselMmsi, clock)

\* the delta has no context, or the last 9 characters of its context are not
\* exactly 9 digits
NamesNoTarget(delta) ==
  \/ ~Has(delta, "context")
  \/ Len(delta.context) < 9
  \/ \E i \in (Len(delta.context) - 8)..Len(delta.context) :
       delta.context[i] \notin Digits

\* C10: in every store the program reaches, for every delta that has no
\* context or whose context does not end in exactly 9 ASCII digits,
\* processDelta returns null (it has no outcome but a return value) and the
\* target store afterwards is the store before: no target is created and no
\* field of a target is written.
C10_InvalidContextChangesNothing ==
  \A i \in 1..Len(AllDeltas(now)) :
    LET delta == AllDeltas(now)[i]
        r == processDelta(delta, targets)
    IN NamesNoTarget(delta) => (r.ret = <<>> /\ r.targets = targets)

\* a rejected delta has been processed while the store holds targets, one of
\* them with derived fields of a tick
C10_Witness ==
  /\ last.op = "processDelta"
  /\ last.ret = <<>>
  /\ VesselMmsi \in DOMAIN targets
  /\ SelfMmsi \in DOMAIN targets
  /\ Has(targets[VesselMmsi], "order")

(***************************************************************************)
(* updateCpa on its own: SpecCpa                                           *)
(***************************************************************************)
\* velocities of the self target (vx, vy), in m/s
CpaSelfVelocities == {<<0, 0>>, <<0, 1>>}

\* projected positions of the other target relative to a self target at the
\* origin, in m: abeam, and ahead or astern up to beyond three hours at 1 m/s
CpaXs == {-3, 0, 4}

CpaYs == {-11000, -10801, -10800, -5, -1, 0, 1, 100}

\* components of the velocity of the other target, in m/s
CpaVxs == {-1, 0, 1}

CpaVys == {-1, 0, 1, 2}

\* a target as the projection leaves it
Projected(mmsi, x, y, vx, vy) == [mmsi |-> mmsi, x |-> x, y |-> y, vx |-> vx, vy |-> vy]

\* the CPA and TCPA of an earlier tick
WithEarlierCpa(target) == Put(Put(target, "cpa", 5), "tcpa", 7)

InitCpa ==
  /\ \E sv \in CpaSelfVelocities, x \in CpaXs, y \in CpaYs, vx \in CpaVxs,
        vy \in CpaVys, earlier \in BOOLEAN, projected \in BOOLEAN :
       LET selfTarget == Projected(SelfMmsi, 0, 0, sv[1], sv[2])
           target == IF projected THEN Projected(VesselMmsi, x, y, vx, vy)
                     ELSE [mmsi |-> VesselMmsi, x |-> x, y |-> y]
       IN targets = Put(Put(EmptyMap, SelfMmsi, selfTarget), VesselMmsi,
                        IF earlier THEN WithEarlierCpa(target) ELSE target)
  /\ collisionProfiles = Profiles("harbor")
  /\ now = 0
  /\ advances = 0
  /\ last = [op |-> "start"]

\* updateCpa(selfTarget, target) for the other target of the store
UpdateCpa ==
  /\ targets' = [targets EXCEPT
                   ![VesselMmsi] = updateCpa(targets[SelfMmsi], targets[VesselMmsi])]
  /\ last' = [op |-> "updateCpa"]
  /\ UNCHANGED <<collisionProfiles, now, advances>>

NextCpa == UpdateCpa

SpecCpa == InitCpa /\ [][NextCpa]_vars

\* k is Math.round(n / d) for d > 0: k <= n / d + 1/2 < k + 1
IsRounded(k, n, d) == 2 * k * d <= 2 * n + d /\ 2 * n + d < 2 * (k + 1) * d

\* k is Math.round(Math.sqrt(n / d)) for n >= 0, d > 0:
\* (k - 1/2)^2 <= n / d < (k + 1/2)^2, the left half only for k > 0
IsRoundedRoot(k, n, d) ==
  /\ k >= 0
  /\ k > 0 => (2 * k - 1) * (2 * k - 1) * d <= 4 * n
  /\ 4 * n < (2 * k + 1) * (2 * k + 1) * d

\* C6: after updateCpa, with dv the relative velocity, w0 the relative position
\* and tcpa = -dot(w0, dv) / dot(dv, dv): CPA and TCPA are both null when
\* dot(dv, dv) < 1e-8 (here: 0) or tcpa is zero, negative or above 10800 s
\* (with whole metres and m/s it is always finite); only otherwise they are
\* the rounded distance of the two targets at the time tcpa, which is
\* sqrt(|w0|^2 - dot(w0, dv)^2 / dot(dv, dv)), and the rounded tcpa.
C6_CpaNullOrRounded ==
  (last.op = "updateCpa" /\ Has(targets[VesselMmsi], "vx")) =>
    LET s == targets[SelfMmsi]
        t == targets[VesselMmsi]
        dvx == t.vx - s.vx
        dvy == t.vy - s.vy
        wx == t.x - s.x
        wy == t.y - s.y
        dv2 == dvx * dvx + dvy * dvy
        closing == -(wx * dvx + wy * dvy)
    IN IF dv2 = 0 \/ closing <= 0 \/ closing > 10800 * dv2
         THEN ~Has(t, "cpa") /\ ~Has(t, "tcpa")
         ELSE /\ Has(t, "cpa") /\ Has(t, "tcpa")
              /\ IsRounded(t.tcpa, closing, dv2)
              /\ IsRoundedRoot(t.cpa, (wx * wx + wy * wy) * dv2 - closing * closing,
                               dv2)

\* updateCpa has discarded a solution beyond the horizon of a target that
\* carried the CPA and TCPA of an earlier tick
C6_Witness ==
  /\ last.op = "updateCpa"
  /\ Has(targets[VesselMmsi], "vx")
  /\ targets[VesselMmsi].vy - targets[SelfMmsi].vy = 1
  /\ targets[VesselMmsi].vx = 0
  /\ targets[VesselMmsi].y = -10801
  /\ ~Has(targets[VesselMmsi], "cpa")
  /\ ~Has(targets[VesselMmsi], "tcpa")

(***************************************************************************)
(* evaluateAlarms on its own: SpecAlarms                                   *)
(***************************************************************************)
\* a second ordinary vessel
Vessel2Mmsi == <<"2", "6", "5", "0", "0", "0", "0", "0", "6">>

\* In the inputs below -1 stands for a field that is null.
\* ranges in m: unknown, 0, 1, either side of 0.5 nm, 54 nm, half the globe
AlarmRanges == {-1, 0, 1, 925, 926, 100000, 20000000}

\* CPAs in m: either side of 0.1 nm, just below 4 nm, 5 nm
AlarmCpas == {0, 1, 185, 186, 7407, 9260}

\* TCPAs in s, as updateCpa stores them (0 is a rounded 0.4)
AlarmTcpas == {0, 1, 299, 300, 3599, 10800}

\* speeds in m/s
AlarmSogs == {-1, 0, 1, 2}

\* the pairs (cpa, tcpa) updateCpa can leave beside the range: both null or
\* both set, a CPA not above a known range
CpaTcpaPairs(range, cpas, tcpas) ==
  {<<-1, -1>>} \cup {ct \in cpas \X tcpas : range < 0 \/ ct[1] <= range}

\* obj.f = v, or obj.f = null when v is -1
PutOrNull(obj, f, v) == IF v < 0 THEN Del(obj, f) ELSE Put(obj, f, v)

\* the alarm fields left by an earlier classification, under the coastal
\* profile, of a target 500 m away that closes in to 100 m within 200 s
EarlierClassified(mmsi) ==
  evaluateAlarms([mmsi |-> mmsi, range |-> 500, cpa |-> 100, tcpa |-> 200, sog |-> 2],
                 Profiles("coastal"))

\* a target as the kinematics leave it for the classification
Kinematic(mmsi, range, ct, sog, earlier) ==
  LET base == IF earlier THEN EarlierClassified(mmsi) ELSE [mmsi |-> mmsi]
  IN PutOrNull(PutOrNull(PutOrNull(PutOrNull(base, "range", range),
                                   "cpa", ct[1]), "tcpa", ct[2]), "sog", sog)

\* the profile sets of SpecAlarms, by number
AlarmProfiles(i) ==
  CASE i = 1 -> Profiles("anchor")
    [] i = 2 -> Profiles("harbor")
    [] i = 3 -> Profiles("coastal")
    [] i = 4 -> Profiles("offshore")
    [] i = 5 -> ProfilesOfUnknownName
    [] i = 6 -> ProfilesWithoutDanger

\* one ordinary vessel, over all inputs and profile sets
InitOneVessel ==
  \E range \in AlarmRanges, sog \in AlarmSogs, earlier \in BOOLEAN, i \in 1..6 :
    \E ct \in CpaTcpaPairs(range, AlarmCpas, AlarmTcpas) :
      /\ targets = Put(EmptyMap, VesselMmsi, Kinematic(VesselMmsi, range, ct, sog, earlier))
      /\ collisionProfiles = AlarmProfiles(i)

\* one beacon
InitOneBeacon ==
  \E mmsi \in {SartMmsi, MobMmsi, EpirbMmsi}, range \in {-1, 1, 20000000},
     ct \in {<<-1, -1>>, <<1, 1>>}, earlier \in BOOLEAN, i \in 1..6 :
    /\ targets = Put(EmptyMap, mmsi, Kinematic(mmsi, range, ct, 0, earlier))
    /\ collisionProfiles = AlarmProfiles(i)

\* an ordinary vessel and a second target, each at the ends of the ranges
InitTwoTargets ==
  \E mmsi \in {Vessel2Mmsi, SartMmsi}, r1 \in {-1, 1, 20000000},
     r2 \in {-1, 1, 20000000}, s1 \in {0, 2}, s2 \in {0, 2}, i \in 1..4 :
    \E ct1 \in CpaTcpaPairs(r1, {0, 1, 186, 9260}, {0, 1, 300, 3599}),
       ct2 \in CpaTcpaPairs(r2, {0, 1, 186, 9260}, {0, 1, 300, 3599}) :
      /\ targets = Put(Put(EmptyMap, VesselMmsi, Kinematic(VesselMmsi, r1, ct1, s1, FALSE)),
                       mmsi, Kinematic(mmsi, r2, ct2, s2, FALSE))
      /\ collisionProfiles = AlarmProfiles(i)

InitAlarms ==
  /\ InitOneVessel \/ InitOneBeacon \/ InitTwoTargets
  /\ now = 0
  /\ advances = 0
  /\ last = [op |-> "start"]

\* evaluateAlarms(target, collisionProfiles) for every target of the store;
\* "caught" holds the targets for which the catch block logged an error
EvaluateAlarms ==
  /\ targets' = [mmsi \in DOMAIN targets |->
                   evaluateAlarms(targets[mmsi], collisionProfiles)]
  /\ last' = [op |-> "evaluateAlarms",
              caught |-> {mmsi \in DOMAIN targets :
                            evaluateAlarmsCaught(targets[mmsi], collisionProfiles)}]
  /\ UNCHANGED <<collisionProfiles, now, advances>>

NextAlarms == EvaluateAlarms

SpecAlarms == InitAlarms /\ [][NextAlarms]_vars

\* the target mmsi has been classified: evaluateAlarms ran to its end for it
Classified(mmsi) ==
  /\ last.op = "evaluateAlarms"
  /\ mmsi \in DOMAIN targets
  /\ mmsi \notin last.caught

\* the flag f of target t is true
Flag(t, f) == Has(t, f) /\ t[f]

\* the field f of target t is not null and equals v
FieldIs(t, f, v) == Has(t, f) /\ t[f] = v

\* alarmState of target t is v
StateIs(t, v) == FieldIs(t, "alarmState", v)

\* one of the five alarms that make the state 'danger' is true
AnyOfFive(t) ==
  \/ Flag(t, "guardAlarm") \/ Flag(t, "collisionAlarm")
  \/ Flag(t, "sartAlarm") \/ Flag(t, "mobAlarm") \/ Flag(t, "epirbAlarm")

\* C3: after a target is classified, alarmState is 'danger' if and only if at
\* least one of guardAlarm, collisionAlarm, sartAlarm, mobAlarm, epirbAlarm is
\* true; it is 'warning' if and only if none of those is true and
\* collisionWarning is true; and it is null otherwise.
C3_AlarmStateFromFlags ==
  \A mmsi \in DOMAIN targets :
    Classified(mmsi) =>
      LET t == targets[mmsi]
      IN /\ StateIs(t, "danger") <=> AnyOfFive(t)
         /\ StateIs(t, "warning") <=> (~AnyOfFive(t) /\ Flag(t, "collisionWarning"))
         /\ (~AnyOfFive(t) /\ ~Flag(t, "collisionWarning")) => ~Has(t, "alarmState")

\* a classified target in state 'warning', one in state 'danger' and one
\* without state have been seen: here the one in state 'warning'
C3_Witness ==
  \E mmsi \in DOMAIN targets :
    /\ Classified(mmsi)
    /\ StateIs(targets[mmsi], "warning")
    /\ ~Flag(targets[mmsi], "guardAlarm")
    /\ Flag(targets[mmsi], "collisionWarning")

\* the speed gate of a threshold group passes: gate speed 0, or the speed of
\* the target is known and above the gate speed (tenths of a knot) in m/s
GatePasses(t, gateSpeed) ==
  gateSpeed = 0 \/ (Has(t, "sog") /\ t.sog * 194384 > gateSpeed * 10000)

\* C4: after classification, guardAlarm is true exactly when range is
\* non-null and strictly below guard.range x 1852 m and the speed gate of the
\* guard group passes; a guard range of 0 never raises the guard alarm.
C4_GuardAlarm ==
  \A mmsi \in DOMAIN targets :
    Classified(mmsi) =>
      LET t == targets[mmsi]
      IN /\ Flag(t, "guardAlarm") <=>
              /\ Has(t, "range")
              /\ LET guard == collisionProfiles[collisionProfiles.current].guard
                 IN /\ t.range * 10 < guard.range * 1852
                    /\ GatePasses(t, guard.speed)
         /\ (/\ ProfileComplete(collisionProfiles)
             /\ collisionProfiles[collisionProfiles.current].guard.range = 0)
              => ~Flag(t, "guardAlarm")

\* a classified target 925 m away has the guard alarm of a 0.5 nm guard zone
C4_Witness ==
  /\ Classified(VesselMmsi)
  /\ Flag(targets[VesselMmsi], "guardAlarm")
  /\ FieldIs(targets[VesselMmsi], "range", 925)
  /\ collisionProfiles.current = "anchor"

\* the collision condition of C5 for the threshold group
CollisionCondition(t, group) ==
  /\ Has(t, "cpa")
  /\ t.cpa * 10 < group.cpa * 1852
  /\ Has(t, "tcpa")
  /\ t.tcpa > 0
  /\ t.tcpa < group.tcpa
  /\ GatePasses(t, group.speed)

\* C5: after classification, collisionAlarm (respectively collisionWarning) is
\* true exactly when CPA is non-null and below danger.cpa (resp. warning.cpa)
\* in meters, TCPA is non-null, positive and below danger.tcpa (resp.
\* warning.tcpa) seconds, and the speed gate of that group passes.
C5_CollisionAlarmAndWarning ==
  \A mmsi \in DOMAIN targets :
    Classified(mmsi) =>
      LET t == targets[mmsi]
      IN /\ Flag(t, "collisionAlarm") <=>
              /\ Has(t, "cpa")
              /\ CollisionCondition(t, collisionProfiles[collisionProfiles.current].danger)
         /\ Flag(t, "collisionWarning") <=>
              /\ Has(t, "cpa")
              /\ CollisionCondition(t, collisionProfiles[collisionProfiles.current].warning)

\* a classified target with the collision alarm at a TCPA just below the
\* danger threshold of the harbor profile
C5_Witness ==
  /\ Classified(VesselMmsi)
  /\ Flag(targets[VesselMmsi], "collisionAlarm")
  /\ Flag(targets[VesselMmsi], "collisionWarning")
  /\ FieldIs(targets[VesselMmsi], "tcpa", 299)
  /\ FieldIs(targets[VesselMmsi], "cpa", 185)
  /\ collisionProfiles.current = "harbor"

\* the bucket of a classified target with known range: 1 danger, 2 warning,
\* 3 closing (positive TCPA, no alarm), 4 diverging
Bucket(t) ==
  IF StateIs(t, "danger") THEN 1
  ELSE IF StateIs(t, "warning") THEN 2
  ELSE IF Has(t, "tcpa") /\ t.tcpa > 0 THEN 3
  ELSE 4

\* C8: of any two classified targets with known range the one in the more
\* urgent bucket has the strictly smaller order (danger < warning < closing <
\* diverging), and every classified target with unknown range has a larger
\* order than every classified target with known range.
C8_BucketsOrdered ==
  \A a \in DOMAIN targets, b \in DOMAIN targets :
    (Classified(a) /\ Classified(b)) =>
      LET ta == targets[a]
          tb == targets[b]
      IN /\ (Has(ta, "range") /\ Has(tb, "range") /\ Bucket(ta) < Bucket(tb))
              => ta.order < tb.order
         /\ (Has(ta, "range") /\ ~Has(tb, "range")) => ta.order < tb.order

\* a beacon in danger half the globe away and a vessel in state 'warning' at a
\* range of 1 m have both been classified
C8_Witness ==
  /\ Classified(VesselMmsi)
  /\ Classified(SartMmsi)
  /\ FieldIs(targets[SartMmsi], "range", 20000000)
  /\ StateIs(targets[SartMmsi], "danger")
  /\ StateIs(targets[VesselMmsi], "warning")
  /\ FieldIs(targets[VesselMmsi], "range", 1)

(***************************************************************************)
(* The tick over stores built from deltas and an earlier tick: SpecTick    *)
(***************************************************************************)
\* a position report of the target mmsi with the timestamp ts, and one whose
\* update has no timestamp
PositionDelta(mmsi, position, ts) ==
  [context |-> Ctx(mmsi),
   updates |-> <<Upd(ts, <<Val("navigation.position", position)>>)>>]

UntimedPositionDelta(mmsi, position) ==
  [context |-> Ctx(mmsi),
   updates |-> <<[values |-> <<Val("navigation.position", position)>>]>>]

\* speed and course of the target mmsi, and both of them null
MotionDelta(mmsi, sog, cog, ts) ==
  [context |-> Ctx(mmsi),
   updates |-> <<Upd(ts, <<Val("navigation.speedOverGround", sog),
                           Val("navigation.courseOverGroundTrue", cog)>>)>>]

NullMotionDelta(mmsi, ts) ==
  [context |-> Ctx(mmsi),
   updates |-> <<Upd(ts, <<NullVal("navigation.speedOverGround"),
                           NullVal("navigation.courseOverGroundTrue")>>)>>]

\* the deltas of the self target before the tick at the clock value clock
SelfCodes ==
  {"absent", "noPosition", "fresh", "moving", "nullMotion", "latOnly", "lonOnly",
   "atLimit", "stale", "untimed", "ahead"}

SelfDeltas(code, clock) ==
  CASE code = "absent" -> <<>>
    [] code = "noPosition" -> <<MotionDelta(SelfMmsi, 1, 0, clock)>>
    [] code = "fresh" -> <<PositionDelta(SelfMmsi, Pos(0, 0), clock)>>
    [] code = "moving" -> <<PositionDelta(SelfMmsi, Pos(0, 0), clock),
                            MotionDelta(SelfMmsi, 1, 0, clock)>>
    [] code = "nullMotion" -> <<PositionDelta(SelfMmsi, Pos(0, 0), clock),
                                NullMotionDelta(SelfMmsi, clock)>>
    [] code = "latOnly" -> <<PositionDelta(SelfMmsi, [latitude |-> 0], clock)>>
    [] code = "lonOnly" -> <<PositionDelta(SelfMmsi, [longitude |-> 0], clock)>>
    [] code = "atLimit" ->
         <<PositionDelta(SelfMmsi, Pos(0, 0), clock - (TARGET_MAX_AGE * 1000 + 499))>>
    [] code = "stale" ->
         <<PositionDelta(SelfMmsi, Pos(0, 0), clock - (TARGET_MAX_AGE * 1000 + 500))>>
    [] code = "untimed" -> <<UntimedPositionDelta(SelfMmsi, Pos(0, 0))>>
    [] code = "offOrigin" -> <<PositionDelta(SelfMmsi, Pos(-10, 0), clock)>>
    [] code = "ahead" -> <<PositionDelta(SelfMmsi, Pos(0, 0), clock + ClockSkew)>>

\* the position reported by another target: on one of the principal
\* directions from the origin, half a turn away on the equator, without
\* longitude, or null
PositionCodes == {"never", "null", "latOnly", "here", "north", "east", "southwest", "far"}

PositionOf(code) ==
  CASE code = "null" -> EmptyObj
    [] code = "latOnly" -> [latitude |-> 100]
    [] code = "here" -> Pos(0, 0)
    [] code = "north" -> Pos(100, 0)
    [] code = "east" -> Pos(0, 50)
    [] code = "southwest" -> Pos(-30, -30)
    [] code = "far" -> Pos(0, 180 * DEG_UNITS)
    [] code = "ahead" -> Pos(1, 0)

\* the timestamp of that report, 0 for none: at the clock, older than
\* LOST_TARGET_WARNING_AGE, older than TARGET_MAX_AGE
SeenCodes == {"fresh", "lost", "stale", "untimed"}

SeenAt(code, clock) ==
  CASE code = "fresh" -> clock
    [] code = "lost" -> clock - (LOST_TARGET_WARNING_AGE * 1000 + 500)
    [] code = "stale" -> clock - (TARGET_MAX_AGE * 1000 + 500)
    [] code = "untimed" -> 0

\* speed and course reported by another target
MotionCodes == {"default", "null", "south", "west"}

\* the deltas of another target before the tick
OtherDeltas(other, clock) ==
  (CASE other.pos = "never" -> <<>>
     [] other.seen = "untimed" ->
          <<UntimedPositionDelta(other.mmsi, PositionOf(other.pos))>>
     [] OTHER -> <<PositionDelta(other.mmsi, PositionOf(other.pos),
                                 SeenAt(other.seen, clock))>>)
  \o (CASE other.motion = "default" -> <<>>
        [] other.motion = "null" -> <<NullMotionDelta(other.mmsi, clock)>>
        [] other.motion = "south" -> <<MotionDelta(other.mmsi, 1, 2, clock)>>
        [] other.motion = "west" -> <<MotionDelta(other.mmsi, 2, 3, clock)>>
        [] other.motion = "crossing" -> <<MotionDelta(other.mmsi, 5, 3, clock)>>)
  \o (IF other.pos = "never" /\ other.motion = "default"
        THEN <<[context |-> Ctx(other.mmsi), updates |-> <<>>]>> ELSE <<>>)

\* the deltas before the earlier tick: the self target at the origin and the
\* other target 1 km north of it, heading south at 1 m/s
EarlierDeltas(mmsi, clock) ==
  <<PositionDelta(mmsi, Pos(100, 0), clock), MotionDelta(mmsi, 1, 2, clock)>>

\* processDelta for the deltas i..Len(deltas), in order
RECURSIVE ApplyDeltas(_, _, _)
ApplyDeltas(tgts, deltas, i) ==
  IF i > Len(deltas) THEN tgts
  ELSE ApplyDeltas(processDelta(deltas[i], tgts).targets, deltas, i + 1)

\* the deltas of the targets i..Len(others) that took part in the earlier tick
RECURSIVE EarlierDeltasOf(_, _, _)
EarlierDeltasOf(others, clock, i) ==
  IF i > Len(others) THEN <<>>
  ELSE (IF others[i].earlier THEN EarlierDeltas(others[i].mmsi, clock) ELSE <<>>)
       \o EarlierDeltasOf(others, clock, i + 1)

RECURSIVE OtherDeltasOf(_, _, _)
OtherDeltasOf(others, clock, i) ==
  IF i > Len(others) THEN <<>>
  ELSE OtherDeltas(others[i], clock) \o OtherDeltasOf(others, clock, i + 1)

\* the store before the tick at the clock value clock: when one of the others
\* took part in an earlier tick, that tick ran 5 s before under the coastal
\* profile with the self target at the origin; then the deltas of the self
\* target and of the others arrived
StoreBeforeTick(selfCode, others, clock) ==
  LET earlier == EarlierDeltasOf(others, clock - 5000, 1)
      ticked ==
        IF earlier = <<>> THEN EmptyMap
        ELSE updateDerivedData(
               ApplyDeltas(EmptyMap,
                           <<PositionDelta(SelfMmsi, Pos(0, 0), clock - 5000)>> \o earlier, 1),
               SelfMmsi, Profiles("coastal"), clock - 5000).targets
  IN ApplyDeltas(ticked, SelfDeltas(selfCode, clock) \o OtherDeltasOf(others, clock, 1), 1)

Other(mmsi, pos, seen, motion, earlier) ==
  [mmsi |-> mmsi, pos |-> pos, seen |-> seen, motion |-> motion, earlier |-> earlier]

\* the profile sets of SpecTick, by number
TickProfiles(i) ==
  CASE i = 1 -> Profiles("harbor")
    [] i = 2 -> Profiles("coastal")
    [] i = 3 -> ProfilesOfUnknownName

\* a self target with a fix and one other target, over all its reports
InitTickOneOther(clock) ==
  \E selfCode \in {"fresh", "moving", "nullMotion", "untimed"}, mmsi \in OtherMmsis,
     pos \in PositionCodes, seen \in SeenCodes, motion \in MotionCodes,
     earlier \in BOOLEAN :
    targets = StoreBeforeTick(selfCode, <<Other(mmsi, pos, seen, motion, earlier)>>, clock)

\* every state of the self target, with a beacon or a vessel
InitTickAnySelf(clock) ==
  \E selfCode \in SelfCodes, mmsi \in {SartMmsi, VesselMmsi}, pos \in {"never", "north"},
     earlier \in BOOLEAN :
    targets = StoreBeforeTick(selfCode, <<Other(mmsi, pos, "fresh", "default", earlier)>>, clock)

\* two other targets
InitTickTwoOthers(clock) ==
  \E selfCode \in {"fresh", "stale"}, pair \in {<<SartMmsi, VesselMmsi>>, <<MobMmsi, EpirbMmsi>>},
     pos1 \in {"never", "north", "far"}, pos2 \in {"never", "north", "far"},
     motion1 \in {"default", "south"}, motion2 \in {"default", "south"},
     earlier1 \in BOOLEAN, earlier2 \in BOOLEAN :
    targets = StoreBeforeTick(selfCode,
                              <<Other(pair[1], pos1, "fresh", motion1, earlier1),
                                Other(pair[2], pos2, "fresh", motion2, earlier2)>>, clock)

\* close quarters: the self target under way north at 1 m/s and another
\* target 10 m ahead of it or 1000 m north of it, crossing westwards at 5 m/s
\* or heading south
InitTickCloseQuarters(clock) ==
  \E mmsi \in {SartMmsi, VesselMmsi}, pos \in {"ahead", "north"},
     motion \in {"crossing", "south"}, earlier \in BOOLEAN :
    targets = StoreBeforeTick("moving", <<Other(mmsi, pos, "fresh", motion, earlier)>>, clock)

\* the self target 100 m south of the point of latitude 0 and longitude 0,
\* and another target that never reported a position, reported a latitude
\* only, or is 1000 m north of that point; it is at rest or heading south
InitTickOffOrigin(clock) ==
  \E mmsi \in {SartMmsi, VesselMmsi}, pos \in {"never", "latOnly", "north"},
     motion \in {"default", "south"}, earlier \in BOOLEAN :
    targets = StoreBeforeTick("offOrigin", <<Other(mmsi, pos, "fresh", motion, earlier)>>, clock)

InitTick ==
  /\ now = 2000000
  /\ \/ InitTickOneOther(now) \/ InitTickAnySelf(now) \/ InitTickTwoOthers(now)
     \/ InitTickCloseQuarters(now) \/ InitTickOffOrigin(now)
  /\ \E i \in 1..3 : collisionProfiles = TickProfiles(i)
  /\ advances = 0
  /\ last = [op |-> "start"]

NextTick == UpdateDerivedData

SpecTick == InitTick /\ [][NextTick]_vars

\* the last step was a tick, and a tick that did not raise the no-fix error
Ticked == last.op = "updateDerivedData"

TickCompleted == Ticked /\ ~last.threw

\* the targets of the store other than the self target
NonSelf == DOMAIN targets \ {SelfMmsi}

\* the self target is absent or its latitude or longitude is null
SelfHasNoPosition ==
  \/ SelfMmsi \notin DOMAIN targets
  \/ ~Has(targets[SelfMmsi], "latitude")
  \/ ~Has(targets[SelfMmsi], "longitude")

\* the last position report of the self target has a timestamp, and its age
\* rounds to more than TARGET_MAX_AGE = 1800 seconds
SelfReportTooOld ==
  /\ SelfMmsi \in DOMAIN targets
  /\ Has(targets[SelfMmsi], "lastSeenDate")
  /\ 2 * (now - targets[SelfMmsi].lastSeenDate) >= 2 * 1800 * 1000 + 1000

\* k is the age in seconds of the last report of t at the clock value now:
\* the rounded difference, 0 when that is negative, NaN without a timestamp
AgeIs(k, t) ==
  IF ~Has(t, "lastSeenDate") THEN k = NaN
  ELSE LET diff == now - t.lastSeenDate
       IN \/ k = 0 /\ 2 * diff + 1000 < 2000
          \/ k >= 0 /\ 2000 * k <= 2 * diff + 1000 /\ 2 * diff + 1000 < 2000 * (k + 1)

\* the derived fields of t are those of its raw fields at the clock value now
Recomputed(t) ==
  /\ Has(t, "lastSeen") /\ AgeIs(t.lastSeen, t)
  /\ Has(t, "isLost") /\ Has(t, "isValid")
  /\ FieldIs(t, "y", IF Has(t, "latitude") THEN 10 * t.latitude ELSE 0)
  /\ FieldIs(t, "x", IF Has(t, "longitude") THEN 10 * t.longitude ELSE 0)
  /\ t.mmsi # SelfMmsi =>
       (Has(t, "range") <=> (Has(t, "latitude") /\ Has(t, "longitude")))

\* C1 (amended): the tick raises the no-fix error when the self target is
\* absent, its latitude or longitude is null, or the age of its last position
\* report exceeds the maximum age; in every other case - whatever its speed
\* and course, and also without a report timestamp - it completes without
\* raising and recomputes every target in the store.
C1_NoFixIffSelfInvalid ==
  Ticked =>
    /\ last.threw <=> (SelfHasNoPosition \/ SelfReportTooOld)
    /\ ~last.threw => \A mmsi \in DOMAIN targets : Recomputed(targets[mmsi])

\* C1 as claimed: the tick raises exactly when the self target is absent or
\* its latitude or longitude is null, for any last-report timestamp.
C1_AsClaimed ==
  Ticked =>
    /\ last.threw <=> SelfHasNoPosition
    /\ ~last.threw => \A mmsi \in DOMAIN targets : Recomputed(targets[mmsi])

\* a tick has completed for a self target with a position and null speed and
\* course, and has given a target last reported 5 s before the age 5
C1_Witness ==
  /\ TickCompleted
  /\ ~SelfHasNoPosition
  /\ ~Has(targets[SelfMmsi], "sog")
  /\ ~Has(targets[SelfMmsi], "cog")
  /\ \E mmsi \in NonSelf :
       /\ Has(targets[mmsi], "lastSeenDate")
       /\ targets[mmsi].lastSeenDate = now - 5000
       /\ FieldIs(targets[mmsi], "lastSeen", 5)

\* the id of t starts with the three characters c1 c2 c3
IdStartsWith(t, c1, c2, c3) == t.mmsi[1] = c1 /\ t.mmsi[2] = c2 /\ t.mmsi[3] = c3

\* the identity alarms and the state C2 asks of a non-self target
BeaconInDanger(t) ==
  /\ IdStartsWith(t, "9", "7", "0") => (Flag(t, "sartAlarm") /\ StateIs(t, "danger"))
  /\ IdStartsWith(t, "9", "7", "2") => (Flag(t, "mobAlarm") /\ StateIs(t, "danger"))
  /\ IdStartsWith(t, "9", "7", "4") => (Flag(t, "epirbAlarm") /\ StateIs(t, "danger"))

\* C2 (amended): after every tick that does not raise the no-fix error and
\* runs with an active profile that has its guard, danger and warning groups,
\* a non-self target whose id starts with 970, 972 or 974 has sartAlarm,
\* mobAlarm or epirbAlarm true respectively and alarmState = 'danger',
\* whatever its position (including an absent one), range, CPA, TCPA and speed.
C2_BeaconsInDangerAfterCompletedTick ==
  (TickCompleted /\ ProfileComplete(collisionProfiles)) =>
    \A mmsi \in NonSelf : BeaconInDanger(targets[mmsi])

\* C2 as claimed: after every tick.
C2_AsClaimed ==
  Ticked => \A mmsi \in NonSelf : BeaconInDanger(targets[mmsi])

\* a tick has completed with a MOB device and an EPIRB in the store, neither
\* of which ever reported a position
C2_Witness ==
  /\ TickCompleted
  /\ ProfileComplete(collisionProfiles)
  /\ MobMmsi \in NonSelf
  /\ EpirbMmsi \in NonSelf
  /\ ~Has(targets[MobMmsi], "latitude")
  /\ ~Has(targets[EpirbMmsi], "latitude")
  /\ Flag(targets[MobMmsi], "mobAlarm")
  /\ Flag(targets[EpirbMmsi], "epirbAlarm")

\* C7: after a tick that completed, a non-self target has a non-null range
\* and a non-null bearing exactly when its latitude and longitude are both
\* present; with an absent latitude or longitude its range and bearing are
\* null and isValid is false, whatever an earlier tick left in them.
C7_RangeAndBearingFollowPosition ==
  TickCompleted =>
    \A mmsi \in NonSelf :
      LET t == targets[mmsi]
          positioned == Has(t, "latitude") /\ Has(t, "longitude")
      IN /\ Has(t, "range") <=> positioned
         /\ Has(t, "bearing") <=> positioned
         /\ ~positioned => FieldIs(t, "isValid", FALSE)

\* a tick has completed for a moving target that has a latitude and no
\* longitude: it has neither range nor bearing and is not valid
C7_Witness ==
  /\ TickCompleted
  /\ \E mmsi \in NonSelf :
       /\ Has(targets[mmsi], "latitude")
       /\ ~Has(targets[mmsi], "longitude")
       /\ FieldIs(targets[mmsi], "sog", 2)
       /\ ~Has(targets[mmsi], "range")
       /\ ~Has(targets[mmsi], "bearing")
       /\ FieldIs(targets[mmsi], "isValid", FALSE)

\* the order C9 asks of a non-self target
OrderInBounds(t) == Has(t, "order") /\ t.order >= -99999 /\ t.order <= 99999

\* C9 (amended): after every tick that does not raise the no-fix error and
\* runs with an active profile that has its guard, danger and warning groups,
\* every non-self target's order is a number within [-99999, 99999], for any
\* range, CPA and TCPA (including extreme ranges and unknown range).
C9_OrderInBoundsAfterCompletedTick ==
  (TickCompleted /\ ProfileComplete(collisionProfiles)) =>
    \A mmsi \in NonSelf : OrderInBounds(targets[mmsi])

\* C9 as claimed: after every tick.
C9_AsClaimed ==
  Ticked => \A mmsi \in NonSelf : OrderInBounds(targets[mmsi])

\* a tick has completed with a target half the globe away and a target of
\* unknown range in the store
C9_Witness ==
  /\ TickCompleted
  /\ ProfileComplete(collisionProfiles)
  /\ \E a \in NonSelf, b \in NonSelf :
       /\ Has(targets[a], "range") /\ targets[a].range > 20000000
       /\ ~Has(targets[b], "range")
       /\ OrderInBounds(targets[a]) /\ OrderInBounds(targets[b])

(***************************************************************************)
(* C11: a delta whose context names a target                               *)
(***************************************************************************)
\* the paths of the values a delta carries
PathsOf(delta) ==
  IF ~Has(delta, "updates") THEN {}
  ELSE UNION {{delta.updates[i].values[j].path :
                 j \in 1..Len(delta.updates[i].values)} :
              i \in {k \in 1..Len(delta.updates) : Has(delta.updates[k], "values")}}

\* C11 as claimed: in every store the program reaches, for every delta for
\* which processDelta returns an id, the store afterwards holds a target
\* under that id; when the id was new, the target has that id as its mmsi and
\* speed 0 and course 0 unless the delta carries a speed or a course - also
\* for a delta without an update list or without a recognized path.
C11_AsClaimed ==
  \A i \in 1..Len(AllDeltas(now)) :
    LET delta == AllDeltas(now)[i]
        r == processDelta(delta, targets)
    IN r.ret # <<>> =>
         /\ r.ret \in DOMAIN r.targets
         /\ r.ret \notin DOMAIN targets =>
              LET t == r.targets[r.ret]
              IN /\ FieldIs(t, "mmsi", r.ret)
                 /\ "navigation.speedOverGround" \notin PathsOf(delta)
                      => FieldIs(t, "sog", 0)
                 /\ "navigation.courseOverGroundTrue" \notin PathsOf(delta)
                      => FieldIs(t, "cog", 0)

(***************************************************************************)
(* The loops around updateDerivedData: updateLoop and ageOutOldTargets of  *)
(* the web page, refreshDataModel and the mute routes of the plugin        *)
(***************************************************************************)
AGE_OUT_OLD_TARGETS == TRUE

\* the age of the self position above which refreshDataModel reports it stale
GPS_STALE_SECONDS == 30

PUBLISH_THRESHOLDS ==
  [CPA_METERS |-> 10, TCPA_SECONDS |-> 5, RANGE_METERS |-> 10, BEARING_DEGREES |-> 1]

\* the options the plugin was started with: both kinds of publishing
options == [enableDataPublishing |-> TRUE, enableAlarmPublishing |-> TRUE]

\* the age test with the age of the "lost" indicator in place of the maximum
TooOldWhenLost(target) ==
  Has(target, "lastSeen") /\ AgeAbove(target.lastSeen, LOST_TARGET_WARNING_AGE)

\* target.lastSeen > TARGET_MAX_AGE; an undefined or NaN lastSeen compares false
TooOld(target) ==
  Has(target, "lastSeen") /\ AgeAbove(target.lastSeen, TARGET_MAX_AGE)

\* ageOutOldTargets() of the web page: the self target is skipped
ageOutOldTargets(tgts, selfMmsi) ==
  LET kept == {mmsi \in DOMAIN tgts : mmsi = selfMmsi \/ ~TooOld(tgts[mmsi])}
  IN [mmsi \in kept |-> tgts[mmsi]]

\* updateLoop() of the web page: "threw" tells whether the no-fix error was
\* shown; updateUI writes to no target
updateLoop(tgts, selfMmsi, profiles, clock) ==
  LET r == updateDerivedData(tgts, selfMmsi, profiles, clock)
  IN IF r.threw THEN r
     ELSE [threw |-> FALSE,
           targets |-> IF AGE_OUT_OLD_TARGETS
                         THEN ageOutOldTargets(r.targets, selfMmsi)
                         ELSE r.targets]

\* a field whose value may be null, as it is copied to a field that tells
\* null from undefined: <<>> for null
Nullable(target, f) == IF Has(target, f) THEN <<target[f]>> ELSE <<>>

\* target.alarmState with null told from undefined: evaluateAlarms writes
\* alarmState and order together, so alarmState is undefined exactly as long
\* as the target has no order
AlarmStateOf(target) ==
  IF Has(target, "alarmState") THEN target.alarmState
  ELSE IF Has(target, "order") THEN "null"
  ELSE "undefined"

\* target.f != null && target.g != null && Math.abs(target.f - target.g) > limit
ChangedBy(target, f, g, limit) ==
  /\ Has(target, f)
  /\ target[g] # <<>>
  /\ Abs(target[f] - target[g][1]) > limit

\* hasTargetDataChanged(target)
hasTargetDataChanged(target) ==
  \/ ~Has(target, "lastPublishedCpa")
  \/ AlarmStateOf(target) # target.lastPublishedAlarmState
  \/ ChangedBy(target, "cpa", "lastPublishedCpa", PUBLISH_THRESHOLDS.CPA_METERS)
  \/ ChangedBy(target, "tcpa", "lastPublishedTcpa", PUBLISH_THRESHOLDS.TCPA_SECONDS)
  \/ ChangedBy(target, "range", "lastPublishedRange", PUBLISH_THRESHOLDS.RANGE_METERS)
  \/ ChangedBy(target, "bearing", "lastPublishedBearing",
               PUBLISH_THRESHOLDS.BEARING_DEGREES)
  \/ Has(target, "cpa") = (target.lastPublishedCpa = <<>>)
  \/ Has(target, "tcpa") = (target.lastPublishedTcpa = <<>>)

\* the first part of the loop body of refreshDataModel: the last published
\* values are stored when the target data is pushed to SignalK
StorePublished(target, mmsi, selfMmsi) ==
  IF options.enableDataPublishing /\ mmsi # selfMmsi /\ hasTargetDataChanged(target)
    THEN LET t1 == Put(target, "lastPublishedCpa", Nullable(target, "cpa"))
             t2 == Put(t1, "lastPublishedTcpa", Nullable(target, "tcpa"))
             t3 == Put(t2, "lastPublishedRange", Nullable(target, "range"))
             t4 == Put(t3, "lastPublishedBearing", Nullable(target, "bearing"))
         IN Put(t4, "lastPublishedAlarmState", AlarmStateOf(target))
    ELSE target

\* the condition of the notification without the test of the mute flag
HasOpenAlarmThoughMuted(target) ==
  /\ options.enableAlarmPublishing
  /\ Has(target, "alarmState")

\* options.enableAlarmPublishing && target.alarmState && !target.alarmIsMuted
HasOpenAlarm(target) ==
  /\ options.enableAlarmPublishing
  /\ Has(target, "alarmState")
  /\ ~TruthyBool(target, "alarmIsMuted")

\* alarmStateChanged
AlarmStateChanged(target) ==
  \/ Nullable(target, "alarmState") # Nullable(target, "lastNotifiedAlarmState")
  \/ Nullable(target, "alarmType") # Nullable(target, "lastNotifiedAlarmType")

\* the notifications sent for one target: "warn" or "alarm" when its alarm
\* state or type differs from the one last notified
SentFor(target) ==
  IF HasOpenAlarm(target) /\ AlarmStateChanged(target)
    THEN {[state |-> IF target.alarmState = "warning" THEN "warn" ELSE "alarm",
           mmsi |-> target.mmsi]}
    ELSE {}

\* the second part of the loop body without the record of what was notified
TrackNotifiedNoRecord(target) ==
  Del(Del(target, "lastNotifiedAlarmState"), "lastNotifiedAlarmType")

\* the second part of the loop body: lastNotifiedAlarmState and
\* lastNotifiedAlarmType follow the notification, and are reset when the
\* alarm is cleared or muted
TrackNotified(target) ==
  IF HasOpenAlarm(target)
    THEN IF AlarmStateChanged(target)
           THEN Assign(Assign(target, "lastNotifiedAlarmState", target, "alarmState"),
                       "lastNotifiedAlarmType", target, "alarmType")
           ELSE target
    ELSE IF Has(target, "lastNotifiedAlarmState")
           THEN Del(Del(target, "lastNotifiedAlarmState"), "lastNotifiedAlarmType")
           ELSE target

\* the value of notifications.navigation.closestApproach after a completed
\* loop over the targets.  forEach visits the targets in their order of
\* insertion, which the model does not keep: of several notifications sent in
\* one tick any may be the last.
NotificationsAfter(sent, openAlarm, shown) ==
  IF sent # {} THEN {n.state : n \in sent}
  ELSE IF ~openAlarm /\ shown = "alarm" THEN {"normal"}
  ELSE {shown}

\* the one element of a set of one element
Only(S) == CHOOSE x \in S : TRUE

\* targets.forEach(...) of refreshDataModel over the store tgts that
\* updateDerivedData left: publishing, notification and age-out of each
\* target
forEachTarget(tgts, selfMmsi, shown) ==
  LET published == [mmsi \in DOMAIN tgts |->
                      StorePublished(tgts[mmsi], mmsi, selfMmsi)]
      sent == UNION {SentFor(published[mmsi]) : mmsi \in DOMAIN published}
      openAlarm == \E mmsi \in DOMAIN published : HasOpenAlarm(published[mmsi])
      kept == {mmsi \in DOMAIN published :
                 ~(AGE_OUT_OLD_TARGETS /\ TooOld(published[mmsi]))}
  IN [outcome |-> "done",
      targets |-> [mmsi \in kept |-> TrackNotified(published[mmsi])],
      sent |-> sent,
      shows |-> NotificationsAfter(sent, openAlarm, shown)]

\* refreshDataModel() of the plugin with the store tgts and the notification
\* shown: "outcome" names the return taken, "targets" is the store afterwards,
\* "sent" the notifications sent for targets, "shows" the values the
\* notification can have afterwards
refreshDataModel(tgts, selfMmsi, profiles, clock, shown) ==
  IF \/ selfMmsi \notin DOMAIN tgts
     \/ ~Has(tgts[selfMmsi], "latitude")
     \/ ~Has(tgts[selfMmsi], "longitude")
    THEN [outcome |-> "waiting", targets |-> tgts, sent |-> {}, shows |-> {shown}]
  ELSE
    LET r == updateDerivedData(tgts, selfMmsi, profiles, clock)
    IN IF r.threw
         THEN [outcome |-> "error", targets |-> r.targets, sent |-> {},
               shows |-> {"alarm"}]
       ELSE IF AgeAbove(r.targets[selfMmsi].lastSeen, GPS_STALE_SECONDS)
         THEN [outcome |-> "stale", targets |-> r.targets, sent |-> {},
               shows |-> {"alarm"}]
       ELSE Only({forEachTarget(updated, selfMmsi, shown) : updated \in {r.targets}})

\* POST /muteAllAlarms, and muteAllAlarms() of the web page: every target in
\* danger that is not muted is muted
muteAllAlarms(tgts) ==
  [mmsi \in DOMAIN tgts |->
     IF FieldIs(tgts[mmsi], "alarmState", "danger")
        /\ ~TruthyBool(tgts[mmsi], "alarmIsMuted")
       THEN Put(tgts[mmsi], "alarmIsMuted", TRUE)
       ELSE tgts[mmsi]]

\* PUT /setAlarmIsMuted with a body {mmsi, alarmIsMuted}: 404 for an mmsi
\* that is not in the store
setAlarmIsMuted(tgts, mmsi, alarmIsMuted) ==
  IF mmsi \in DOMAIN tgts
    THEN [tgts EXCEPT ![mmsi] = Put(tgts[mmsi], "alarmIsMuted", alarmIsMuted)]
    ELSE tgts

\* handleButtonMuteToggle() of the web page for the selected target
handleButtonMuteToggle(tgts, mmsi) ==
  [tgts EXCEPT ![mmsi] =
     Put(tgts[mmsi], "alarmIsMuted", ~TruthyBool(tgts[mmsi], "alarmIsMuted"))]

(***************************************************************************)
(* The web page and the plugin as state machines: each holds its own store *)
(***************************************************************************)
Programs == {"web", "plugin"}

\* the deltas delivered at the clock value clock: a position of the own
\* vessel, of a vessel 1000 m north of it and of a SART 10 m east of it (its
\* report stamped 1 ms ahead of the clock), a speed of the vessel, and a
\* delta of the SART without update list
LoopDeltas(clock) ==
  << [context |-> Ctx(SelfMmsi),
      updates |-> <<Upd(clock, <<Val("navigation.position", Pos(0, 0))>>)>>],
     [context |-> Ctx(VesselMmsi),
      updates |-> <<Upd(clock, <<Val("navigation.position", Pos(100, 0))>>)>>],
     [context |-> Ctx(VesselMmsi),
      updates |-> <<Upd(clock, <<Val("navigation.speedOverGround", 2)>>)>>],
     [context |-> Ctx(SartMmsi),
      updates |-> <<Upd(clock + 1, <<Val("navigation.position", Pos(0, 1))>>)>>],
     [context |-> Ctx(SartMmsi)] >>

\* the targets a mute request names
MutedMmsis == {SartMmsi}

InitLoop ==
  /\ targets = EmptyMap
  /\ collisionProfiles = Profiles("coastal")
  /\ now = 0
  /\ advances = 0
  /\ \E program \in Programs :
       last = [op |-> "start", program |-> program, shows |-> "none"]

\* what an action of either program leaves in last besides its own outcome
Carried == [program |-> last.program, shows |-> last.shows]

\* the subscription callback of the plugin / handleDelta of the web page
HandleDelta ==
  \E i \in 1..Len(LoopDeltas(now)) :
    LET r == processDelta(LoopDeltas(now)[i], targets)
    IN /\ targets' = r.targets
       /\ last' = [op |-> "processDelta", ret |-> r.ret] @@ Carried
       /\ UNCHANGED <<collisionProfiles, now, advances>>

\* the timer of the web page
UpdateLoop ==
  /\ last.program = "web"
  /\ \E r \in {updateLoop(targets, SelfMmsi, collisionProfiles, now)} :
       /\ targets' = r.targets
       /\ last' = [op |-> "updateLoop", threw |-> r.threw,
                   removed |-> DOMAIN targets \ DOMAIN r.targets] @@ Carried
  /\ UNCHANGED <<collisionProfiles, now, advances>>

\* the timer of the plugin
RefreshDataModel ==
  /\ last.program = "plugin"
  /\ \E r \in {refreshDataModel(targets, SelfMmsi, collisionProfiles, now, last.shows)} :
       /\ targets' = r.targets
       /\ \E shows \in r.shows :
            last' = [op |-> "refreshDataModel", outcome |-> r.outcome,
                     sent |-> r.sent, removed |-> DOMAIN targets \ DOMAIN r.targets,
                     program |-> last.program, shows |-> shows]
  /\ UNCHANGED <<collisionProfiles, now, advances>>

\* POST /muteAllAlarms of the plugin, the mute-all button of the web page
MuteAllAlarms ==
  /\ targets' = muteAllAlarms(targets)
  /\ last' = [op |-> "muteAllAlarms"] @@ Carried
  /\ UNCHANGED <<collisionProfiles, now, advances>>

\* PUT /setAlarmIsMuted of the plugin
SetAlarmIsMuted ==
  /\ last.program = "plugin"
  /\ \E mmsi \in MutedMmsis, alarmIsMuted \in BOOLEAN :
       targets' = setAlarmIsMuted(targets, mmsi, alarmIsMuted)
  /\ last' = [op |-> "setAlarmIsMuted"] @@ Carried
  /\ UNCHANGED <<collisionProfiles, now, advances>>

\* the mute button of the web page, for a selected target
HandleButtonMuteToggle ==
  /\ last.program = "web"
  /\ \E mmsi \in MutedMmsis \cap DOMAIN targets :
       targets' = handleButtonMuteToggle(targets, mmsi)
  /\ last' = [op |-> "handleButtonMuteToggle"] @@ Carried
  /\ UNCHANGED <<collisionProfiles, now, advances>>

\* time passes
LoopClock ==
  /\ advances < MaxAdvances
  /\ \E step \in ClockSteps : now' = now + step
  /\ advances' = advances + 1
  /\ last' = [op |-> "clock"] @@ Carried
  /\ UNCHANGED <<targets, collisionProfiles>>

NextLoop ==
  \/ HandleDelta
  \/ UpdateLoop
  \/ RefreshDataModel
  \/ MuteAllAlarms
  \/ SetAlarmIsMuted
  \/ HandleButtonMuteToggle
  \/ LoopClock

SpecLoop == InitLoop /\ [][NextLoop]_vars

(***************************************************************************)
(* C12, C13: the fields a delta writes                                     *)
(***************************************************************************)
\* one delta for the target mmsi with one update stamped clock
DeltaWith(mmsi, clock, values) ==
  [context |-> Ctx(mmsi), updates |-> <<Upd(clock, values)>>]

\* a value of each recognized path, and of a path that is not recognized
PathValues ==
  << Val("", [name |-> "ANNA"]),
     Val("", [communication |-> [callsignVhf |-> "PA1"]]),
     Val("", [registrations |-> [imo |-> <<"I", "M", "O", " ", "9">>]]),
     Val("navigation.position", Pos(7, 8)),
     Val("navigation.courseOverGroundTrue", 1),
     Val("navigation.speedOverGround", 3),
     Val("navigation.magneticVariation", 1),
     Val("navigation.headingTrue", 2),
     Val("navigation.rateOfTurn", 1),
     Val("design.aisShipType", [id |-> 36, name |-> "Sailing"]),
     Val("navigation.state", "moored"),
     Val("sensors.ais.class", "B"),
     Val("navigation.destination.commonName", "KIEL"),
     Val("design.length", [overall |-> 12]),
     Val("design.beam", 4),
     Val("design.draft", [current |-> 2]),
     Val("atonType", [id |-> 1, name |-> "Buoy"]),
     Val("offPosition", TRUE),
     Val("virtual", FALSE),
     Val("environment.wind.speedTrue", 7),
     Val("navigation.position.altitude", 3) >>

\* the deltas for the target mmsi at the clock value clock: one per value of
\* PathValues, one with a recognized value between two that are not, one with
\* two updates of different timestamps, one without update list, one with an
\* empty update list and one whose update has no values
FrameDeltas(mmsi, clock) ==
  [i \in 1..Len(PathValues) |-> DeltaWith(mmsi, clock, <<PathValues[i]>>)]
  \o << DeltaWith(mmsi, clock, <<PathValues[20], PathValues[8], PathValues[21]>>),
        [context |-> Ctx(mmsi),
         updates |-> <<Upd(clock + 7, <<PathValues[6]>>),
                       Upd(clock + 9, <<PathValues[11]>>)>>],
        [context |-> Ctx(mmsi)],
        [context |-> Ctx(mmsi), updates |-> <<>>],
        [context |-> Ctx(mmsi), updates |-> <<[timestamp |-> clock]>>] >>

\* the fields of a target that the case of a recognized path writes (position
\* reports carry the time of the report, an aid to navigation without status
\* gets the status "default"); none for any other path
FieldsOfPath(path) ==
  CASE path = "" -> {"name", "callsign", "imo"}
    [] path = "navigation.position" -> {"latitude", "longitude", "lastSeenDate"}
    [] path = "navigation.courseOverGroundTrue" -> {"cog"}
    [] path = "navigation.speedOverGround" -> {"sog"}
    [] path = "navigation.magneticVariation" -> {"magvar"}
    [] path = "navigation.headingTrue" -> {"hdg"}
    [] path = "navigation.rateOfTurn" -> {"rot"}
    [] path = "design.aisShipType" -> {"typeId", "type"}
    [] path = "navigation.state" -> {"status"}
    [] path = "sensors.ais.class" -> {"aisClass"}
    [] path = "navigation.destination.commonName" -> {"destination"}
    [] path = "design.length" -> {"length"}
    [] path = "design.beam" -> {"beam"}
    [] path = "design.draft" -> {"draft"}
    [] path = "atonType" -> {"typeId", "type", "status"}
    [] path = "offPosition" -> {"isOffPosition"}
    [] path = "virtual" -> {"isVirtual"}
    [] OTHER -> {}

\* the fields named by the paths of a delta
FieldsOf(delta) == UNION {FieldsOfPath(path) : path \in PathsOf(delta)}

\* the objects a and b agree on the field f
SameField(a, b, f) == Has(a, f) = Has(b, f) /\ (Has(a, f) => a[f] = b[f])

\* the derived fields, the mute flag and the fields the plugin keeps
DerivedFields ==
  {"x", "y", "vx", "vy", "range", "bearing", "cpa", "tcpa", "guardAlarm",
   "collisionAlarm", "collisionWarning", "sartAlarm", "mobAlarm", "epirbAlarm",
   "alarmState", "alarmType", "order", "lastSeen", "isLost", "isValid",
   "alarmIsMuted", "lastNotifiedAlarmState", "lastNotifiedAlarmType"}

StampDeltas(mmsi, clock) ==
  << [context |-> Ctx(mmsi),
      updates |-> <<Upd(clock + 5, <<PathValues[4]>>),
                    Upd(clock + 9, <<PathValues[6]>>)>>],
     [context |-> Ctx(mmsi),
      updates |-> <<Upd(clock + 3, <<PathValues[6]>>),
                    Upd(clock + 5, <<PathValues[8], PathValues[4], PathValues[1]>>)>>],
     [context |-> Ctx(mmsi),
      updates |-> <<Upd(clock + 5, <<PathValues[4]>>),
                    Upd(clock + 2, <<Val("navigation.position", Pos(9, 9))>>)>>] >>

\* the targets of the model
LoopMmsis == {SelfMmsi, VesselMmsi, SartMmsi}

\* the indices of the updates of a delta that carry a position value
PositionUpdates(delta) ==
  IF ~Has(delta, "updates") THEN {}
  ELSE {k \in 1..Len(delta.updates) :
          /\ Has(delta.updates[k], "values")
          /\ \E j \in 1..Len(delta.updates[k].values) :
               delta.updates[k].values[j].path = "navigation.position"}

\* the largest element of a non-empty set of numbers
Last(S) == CHOOSE k \in S : \A j \in S : j <= k

\* C13: in every store either program reaches, for every delta that names a
\* target (known or new), the target's lastSeenDate afterwards is the
\* timestamp of the update that carries the position value (the last such
\* update of the delta) when the delta contains one; a delta without a
\* position value - whatever recognized or unrecognized paths it has, and
\* whatever the timestamps of its updates - leaves lastSeenDate as it was.
C13_PositionSetsLastSeenDate ==
  \A mmsi \in LoopMmsis :
    \A i \in 1..Len(FrameDeltas(mmsi, now) \o StampDeltas(mmsi, now)) :
      LET delta == (FrameDeltas(mmsi, now) \o StampDeltas(mmsi, now))[i]
      IN \E r \in {processDelta(delta, targets)} :
           LET before == IF mmsi \in DOMAIN targets THEN targets[mmsi] ELSE EmptyObj
               after == IF mmsi \in DOMAIN r.targets THEN r.targets[mmsi] ELSE EmptyObj
           IN IF PositionUpdates(delta) = {}
                THEN SameField(before, after, "lastSeenDate")
                ELSE FieldIs(after, "lastSeenDate",
                             delta.updates[Last(PositionUpdates(delta))].timestamp)

\* after a tick and an advance of the clock a position report of the vessel
\* has been applied: its lastSeenDate is the time of that report
C13_Witness ==
  /\ last.op = "processDelta"
  /\ last.ret = VesselMmsi
  /\ now > 0
  /\ FieldIs(targets[VesselMmsi], "lastSeenDate", now)
  /\ FieldIs(targets[VesselMmsi], "lastSeen", 0)

(***************************************************************************)
(* C14: the age of a target                                                *)
(***************************************************************************)
\* C14 as claimed, for the ticks that complete: after the tick every target
\* of the store, the self target included, has an age (lastSeen) that is a
\* number >= 0 - not NaN - also when it has received updates but never a
\* position report.
C14_AsClaimed ==
  TickCompleted =>
    \A mmsi \in DOMAIN targets :
      /\ Has(targets[mmsi], "lastSeen")
      /\ targets[mmsi].lastSeen # NaN
      /\ targets[mmsi].lastSeen >= 0

(***************************************************************************)
(* C15: age-out                                                            *)
(***************************************************************************)
\* the last position report of the target t has a timestamp and its age at
\* the clock value now rounds to more than TARGET_MAX_AGE = 1800 seconds
ReportTooOld(t) ==
  /\ Has(t, "lastSeenDate")
  /\ 2 * (now - t.lastSeenDate) >= 2 * 1800 * 1000 + 1000

\* the store after a tick of the program that holds the store (updateLoop of
\* the web page, refreshDataModel of the plugin) at the clock value now
AfterTick ==
  IF last.program = "web"
    THEN updateLoop(targets, SelfMmsi, collisionProfiles, now).targets
    ELSE refreshDataModel(targets, SelfMmsi, collisionProfiles, now, last.shows).targets

\* C15: in every store the web page or the plugin reaches by deltas, ticks
\* and mute requests, a tick of that program (with its age-out) removes no
\* self target, adds no target, and removes a non-self target only when the
\* age of its last position report at the time of the tick exceeds the
\* maximum age of 1800 s.
C15_AgeOutSparesSelf ==
  \E after \in {AfterTick} :
    /\ DOMAIN after \subseteq DOMAIN targets
    /\ SelfMmsi \in DOMAIN targets => SelfMmsi \in DOMAIN after
    /\ \A mmsi \in DOMAIN targets \ DOMAIN after :
         mmsi # SelfMmsi /\ ReportTooOld(targets[mmsi])

\* a tick has removed the vessel, whose report was 1800.5 s old, and has kept
\* the self target and the SART, whose report was 1800.499 s old
C15_Witness ==
  /\ last.op \in {"updateLoop", "refreshDataModel"}
  /\ last.removed = {VesselMmsi}
  /\ SelfMmsi \in DOMAIN targets
  /\ SartMmsi \in DOMAIN targets
  /\ FieldIs(targets[SartMmsi], "lastSeen", TARGET_MAX_AGE)

(***************************************************************************)
(* C16: the mute flag                                                      *)
(***************************************************************************)
\* the store after a tick, at the clock value now, of the program that holds
\* the store, when the store is tgts
TickStore(tgts) ==
  IF last.program = "web"
    THEN updateLoop(tgts, SelfMmsi, collisionProfiles, now).targets
    ELSE refreshDataModel(tgts, SelfMmsi, collisionProfiles, now, last.shows).targets

\* the notifications for targets that a tick of the plugin sends when the
\* store is tgts
TickSent(tgts) ==
  refreshDataModel(tgts, SelfMmsi, collisionProfiles, now, last.shows).sent

\* the fields that the kinematics and the classification compute
ComputedFields ==
  {"range", "bearing", "cpa", "tcpa", "guardAlarm", "collisionAlarm",
   "collisionWarning", "sartAlarm", "mobAlarm", "epirbAlarm", "alarmState",
   "alarmType", "order"}

\* a tick leaves the mute flag of every target it keeps as it was
TickKeepsMuteFlag ==
  \E after \in {TickStore(targets)} :
    \A mmsi \in DOMAIN after : SameField(targets[mmsi], after[mmsi], "alarmIsMuted")

\* a delta leaves the mute flag of the target it names as it was, and gives a
\* new target none
DeltaKeepsMuteFlag ==
  \A i \in 1..Len(LoopDeltas(now)) :
    \E r \in {processDelta(LoopDeltas(now)[i], targets)} :
      \A mmsi \in DOMAIN r.targets :
        SameField(IF mmsi \in DOMAIN targets THEN targets[mmsi] ELSE EmptyObj,
                  r.targets[mmsi], "alarmIsMuted")

\* the tick keeps the same targets and computes the same fields for every
\* target whether the target mmsi is muted or not
MuteFlagLeavesComputedFields(mmsi) ==
  \E muted \in {TickStore(setAlarmIsMuted(targets, mmsi, TRUE))},
     open \in {TickStore(setAlarmIsMuted(targets, mmsi, FALSE))},
     asIs \in {TickStore(targets)} :
    /\ DOMAIN muted = DOMAIN open /\ DOMAIN asIs = DOMAIN open
    /\ \A m \in DOMAIN open : \A f \in ComputedFields :
         SameField(muted[m], open[m], f) /\ SameField(asIs[m], open[m], f)

\* the tick of the plugin sends no notification for the target mmsi when it
\* is muted, and for the other targets the notifications it sends when the
\* target is not muted
MuteSuppressesNotification(mmsi) ==
  \E muted \in {TickSent(setAlarmIsMuted(targets, mmsi, TRUE))},
     open \in {TickSent(setAlarmIsMuted(targets, mmsi, FALSE))} :
    muted = {n \in open : n.mmsi # mmsi}

\* C16: in every store the web page or the plugin reaches, a tick changes the
\* mute flag of no target and a delta changes the mute flag of no target;
\* the computed fields (range, bearing, CPA, TCPA, the alarm flags,
\* alarmState, alarmType, order) of every target after a tick are the same
\* whether a target is muted or not, so a muted target in danger still has
\* alarmState "danger"; and in the plugin muting a target removes the
\* notification for that target from those a tick sends, and no other.
C16_MuteFlagOnlySuppressesNotification ==
  /\ TickKeepsMuteFlag
  /\ DeltaKeepsMuteFlag
  /\ \A mmsi \in DOMAIN targets :
       /\ MuteFlagLeavesComputedFields(mmsi)
       /\ last.program = "plugin" => MuteSuppressesNotification(mmsi)

\* a tick of the plugin has completed with the SART muted and in danger: no
\* notification was sent, and a tick without the mute flag would send one
C16_Witness ==
  /\ last.op = "refreshDataModel"
  /\ last.outcome = "done"
  /\ last.sent = {}
  /\ SartMmsi \in DOMAIN targets
  /\ FieldIs(targets[SartMmsi], "alarmIsMuted", TRUE)
  /\ FieldIs(targets[SartMmsi], "alarmState", "danger")
  /\ TickSent(setAlarmIsMuted(targets, SartMmsi, FALSE))
       = {[state |-> "alarm", mmsi |-> SartMmsi]}

(***************************************************************************)
(* C17, C18: a classification that fails                                   *)
(***************************************************************************)
\* the target mmsi of the store as evaluateAlarms receives it in a tick at
\* the clock value now: projected, with range, bearing, CPA and TCPA
BeforeClassification(mmsi) ==
  LET selfTarget == updateSingleTargetDerivedData(targets[SelfMmsi], targets[SelfMmsi],
                                                  collisionProfiles, now)
  IN updateCpa(selfTarget,
               calculateRangeAndBearing(selfTarget,
                                        SetProjection(targets[mmsi], selfTarget)))

\* the classification of the target mmsi fails in a tick at the clock value
\* now: it has to read a threshold of a profile or group that is missing
ClassificationFails(mmsi) ==
  evaluateAlarmsCaught(BeforeClassification(mmsi), collisionProfiles)

\* the store tgts without the target mmsi
Without(tgts, mmsi) == [m \in DOMAIN tgts \ {mmsi} |-> tgts[m]]

\* the target t carries a complete classification: the six alarm flags, an
\* order, and the alarmState that the flags determine
HasClassification(t) ==
  /\ \A f \in {"guardAlarm", "collisionAlarm", "collisionWarning", "sartAlarm",
               "mobAlarm", "epirbAlarm", "order"} : Has(t, f)
  /\ StateIs(t, "danger") <=> AnyOfFive(t)
  /\ StateIs(t, "warning") <=> (~AnyOfFive(t) /\ Flag(t, "collisionWarning"))

\* C17: in every store with a self target that is valid for the tick, when
\* the classification of a target fails during the tick, the tick does not
\* raise and keeps every target, and every other non-self target comes out
\* of the tick exactly as it does from a tick on the store without the
\* failing target: recomputed from its raw fields, and classified unless its
\* own classification fails.
C17_FailedClassificationIsLocal ==
  (~SelfHasNoPosition /\ ~SelfReportTooOld) =>
    \E r \in {updateDerivedData(targets, SelfMmsi, collisionProfiles, now)} :
      \A a \in NonSelf :
        ClassificationFails(a) =>
          /\ ~r.threw
          /\ DOMAIN r.targets = DOMAIN targets
          /\ \A b \in NonSelf \ {a} :
               /\ r.targets[b] = updateDerivedData(Without(targets, a), SelfMmsi,
                                                   collisionProfiles, now).targets[b]
               /\ Recomputed(r.targets[b])
               /\ ~ClassificationFails(b) => HasClassification(r.targets[b])

\* a tick has completed under a profile set whose active profile is missing:
\* the classification of one target failed, which has no order, and another
\* target, which never had an order before, is classified
C17_Witness ==
  /\ TickCompleted
  /\ ~ProfileComplete(collisionProfiles)
  /\ \E a \in NonSelf, b \in NonSelf :
       /\ a # b
       /\ evaluateAlarmsCaught(targets[a], collisionProfiles)
       /\ ~Has(targets[a], "order")
       /\ ~evaluateAlarmsCaught(targets[b], collisionProfiles)
       /\ HasClassification(targets[b])

\* the fields evaluateAlarms writes
AlarmFields ==
  {"guardAlarm", "collisionAlarm", "collisionWarning", "sartAlarm", "mobAlarm",
   "epirbAlarm", "alarmState", "alarmType", "order"}

\* C18: when the classification of a target fails, every alarm field of the
\* target (the guard, collision, warning, sart, mob and epirb flags,
\* alarmState, alarmType and order) has after the call the value it had
\* before it.
C18_AsClaimed ==
  \A mmsi \in DOMAIN targets :
    evaluateAlarmsCaught(targets[mmsi], collisionProfiles) =>
      \A f \in AlarmFields :
        SameField(evaluateAlarms(targets[mmsi], collisionProfiles), targets[mmsi], f)

(***************************************************************************)
(* C19: the derived fields are a function of the raw fields                *)
(***************************************************************************)
\* range, bearing, CPA and TCPA
KinematicFields == {"range", "bearing", "cpa", "tcpa"}

\* the fields a tick writes
TickFields ==
  {"x", "y", "vx", "vy", "lastSeen", "isLost", "isValid"}
    \cup KinematicFields \cup AlarmFields

\* the store tgts with the raw fields of every target and nothing that a
\* tick has written
Forget(tgts) ==
  [mmsi \in DOMAIN tgts |->
     [f \in DOMAIN tgts[mmsi] \ TickFields |-> tgts[mmsi][f]]]

\* the targets a and b agree on every field of the set fields
SameFields(a, b, fields) == \A f \in fields : SameField(a, b, f)

MaxQueue == 1

\* the deltas the server delivers at the clock value clock: a position of
\* the own vessel, a delta of the vessel with two updates (its position
\* 1000 m north, then its speed and course south), and a position of a SART
StepDeltas(clock) ==
  << [context |-> Ctx(SelfMmsi),
      updates |-> <<Upd(clock, <<Val("navigation.position", Pos(0, 0))>>)>>],
     [context |-> Ctx(VesselMmsi),
      updates |-> <<Upd(clock, <<Val("navigation.position", Pos(100, 0))>>),
                    Upd(clock, <<Val("navigation.speedOverGround", 2),
                                 Val("navigation.courseOverGroundTrue", 2)>>)>>],
     [context |-> Ctx(SartMmsi),
      updates |-> <<Upd(clock, <<Val("navigation.position", Pos(0, 1))>>)>>] >>

\* refreshDataModel with an await between the update of the self target and
\* the update of the other targets
AwaitsAfterSelfUpdate(tick) == tick = "selfUpdated"

\* refreshDataModel is suspended at an await when it is at the position
\* tick: its body, and updateDerivedData that it calls, hold no await
AwaitsAt(tick) == FALSE

InitSteps ==
  /\ targets = EmptyMap
  /\ collisionProfiles = Profiles("coastal")
  /\ now = 0
  /\ advances = 0
  /\ last = [op |-> "start", tick |-> "none", delta |-> <<>>, queue |-> <<>>,
             before |-> EmptyMap]

\* the server delivers a delta: it waits for the event loop
Arrive ==
  /\ Len(last.queue) < MaxQueue
  /\ \E i \in 1..Len(StepDeltas(now)) :
       last' = [last EXCEPT !.op = "arrive",
                            !.queue = Append(last.queue, StepDeltas(now)[i])]
  /\ UNCHANGED <<targets, collisionProfiles, now, advances>>

\* the subscription callback starts for the delta at the head of the queue:
\* processDelta up to the loop over the updates.  A target of the store is
\* the object written to.
BeginDelta ==
  /\ last.queue # <<>>
  /\ last.delta = <<>>
  /\ last.tick = "none" \/ AwaitsAt(last.tick)
  /\ LET delta == Head(last.queue)
         mmsi == SliceLast(delta.context, 9)
         known == mmsi \in DOMAIN targets
         target == Put(IF known THEN targets[mmsi] ELSE NewTarget(mmsi),
                       "context", delta.context)
     IN /\ targets' = IF known THEN [targets EXCEPT ![mmsi] = target] ELSE targets
        /\ last' = [last EXCEPT !.op = "beginDelta",
                                !.queue = Tail(last.queue),
                                !.delta = <<[delta |-> delta, mmsi |-> mmsi, next |-> 1,
                                             target |-> target]>>,
                                !.before = targets]
  /\ UNCHANGED <<collisionProfiles, now, advances>>

\* one turn of the loop over the updates of the delta
ApplyUpdate ==
  /\ last.delta # <<>>
  /\ LET d == last.delta[1]
     IN /\ d.next <= Len(d.delta.updates)
        /\ \E target \in {ApplyUpdates(d.target, <<d.delta.updates[d.next]>>, 1)} :
             /\ targets' = IF d.mmsi \in DOMAIN targets
                             THEN [targets EXCEPT ![d.mmsi] = target] ELSE targets
             /\ last' = [last EXCEPT !.op = "applyUpdate",
                                     !.delta = <<[d EXCEPT !.next = d.next + 1,
                                                           !.target = target]>>]
  /\ UNCHANGED <<collisionProfiles, now, advances>>

\* targets.set(mmsi, target); return mmsi
FinishDelta ==
  /\ last.delta # <<>>
  /\ LET d == last.delta[1]
     IN /\ d.next > Len(d.delta.updates)
        /\ targets' = Put(targets, d.mmsi, d.target)
        /\ last' = [op |-> "processDelta", tick |-> last.tick, delta |-> <<>>,
                    queue |-> last.queue, before |-> last.before,
                    applied |-> d.delta]
  /\ UNCHANGED <<collisionProfiles, now, advances>>

\* the timer callback starts: refreshDataModel up to and including the
\* update of the self target and the test of its isValid in
\* updateDerivedData
StartTick ==
  /\ last.tick = "none"
  /\ last.delta = <<>>
  /\ IF \/ SelfMmsi \notin DOMAIN targets
        \/ ~Has(targets[SelfMmsi], "latitude")
        \/ ~Has(targets[SelfMmsi], "longitude")
       THEN /\ targets' = targets
            /\ last' = [op |-> "refreshDataModel", tick |-> "none", delta |-> <<>>,
                        queue |-> last.queue, before |-> targets,
                        outcome |-> "waiting"]
       ELSE \E selfTarget \in {updateSingleTargetDerivedData(
                                 targets[SelfMmsi], targets[SelfMmsi],
                                 collisionProfiles, now)} :
              /\ targets' = [targets EXCEPT ![SelfMmsi] = selfTarget]
              /\ last' = IF selfTarget.isValid
                           THEN [op |-> "selfUpdate", tick |-> "selfUpdated",
                                 delta |-> <<>>, queue |-> last.queue,
                                 before |-> targets]
                           ELSE [op |-> "refreshDataModel", tick |-> "none",
                                 delta |-> <<>>, queue |-> last.queue,
                                 before |-> targets, outcome |-> "error"]
  /\ UNCHANGED <<collisionProfiles, now, advances>>

\* the loop of updateDerivedData over the other targets
UpdateOthers ==
  /\ last.tick = "selfUpdated"
  /\ last.delta = <<>>
  /\ targets' = [mmsi \in DOMAIN targets |->
                   IF mmsi # targets[SelfMmsi].mmsi
                     THEN updateSingleTargetDerivedData(targets[mmsi], targets[SelfMmsi],
                                                        collisionProfiles, now)
                     ELSE targets[mmsi]]
  /\ last' = [last EXCEPT !.op = "updateOthers", !.tick = "othersUpdated"]
  /\ UNCHANGED <<collisionProfiles, now, advances>>

\* the rest of refreshDataModel: the test of the age of the fix, and the
\* forEach that publishes, notifies and ages out
PublishAndAgeOut ==
  /\ last.tick = "othersUpdated"
  /\ last.delta = <<>>
  /\ IF AgeAbove(targets[SelfMmsi].lastSeen, GPS_STALE_SECONDS)
       THEN /\ targets' = targets
            /\ last' = [op |-> "refreshDataModel", tick |-> "none", delta |-> <<>>,
                        queue |-> last.queue, before |-> last.before,
                        outcome |-> "stale"]
       ELSE \E r \in {forEachTarget(targets, SelfMmsi, "none")} :
              /\ targets' = r.targets
              /\ last' = [op |-> "refreshDataModel", tick |-> "none", delta |-> <<>>,
                          queue |-> last.queue, before |-> last.before,
                          outcome |-> "done"]
  /\ UNCHANGED <<collisionProfiles, now, advances>>

\* time passes between two callbacks
StepsClock ==
  /\ last.tick = "none"
  /\ last.delta = <<>>
  /\ advances < MaxAdvances
  /\ \E step \in {1000, 31000} : now' = now + step
  /\ advances' = advances + 1
  /\ last' = [op |-> "clock", tick |-> "none", delta |-> <<>>, queue |-> last.queue,
              before |-> last.before]
  /\ UNCHANGED <<targets, collisionProfiles>>

NextSteps ==
  \/ Arrive
  \/ BeginDelta
  \/ ApplyUpdate
  \/ FinishDelta
  \/ StartTick
  \/ UpdateOthers
  \/ PublishAndAgeOut
  \/ StepsClock

SpecSteps == InitSteps /\ [][NextSteps]_vars

\* C20: the subscription callback and the tick never interleave.  No delta
\* is in progress while a tick is, and none starts then even when one
\* waits; between the self update and the update of the other targets the
\* store is the store of the start of the tick but for the self target; a
\* tick that ends leaves the store that refreshDataModel makes in one piece
\* of the store of its start; and a delta that ends leaves the store that
\* processDelta makes in one piece of the store of its start.
C20_DeltaAndTickNeverInterleave ==
  /\ ~(last.delta # <<>> /\ last.tick # "none")
  /\ last.tick = "selfUpdated" =>
       /\ DOMAIN targets = DOMAIN last.before
       /\ \A mmsi \in DOMAIN targets \ {SelfMmsi} : targets[mmsi] = last.before[mmsi]
  /\ last.op = "refreshDataModel" =>
       \E r \in {refreshDataModel(last.before, SelfMmsi, collisionProfiles, now, "none")} :
         /\ r.outcome = last.outcome
         /\ r.targets = targets
  /\ last.op = "processDelta" =>
       targets = processDelta(last.applied, last.before).targets

\* a delta of the vessel waits for the event loop while a tick is between
\* the self update and the update of the other targets, of which the vessel
\* is one
C20_Witness ==
  /\ last.tick = "selfUpdated"
  /\ last.queue # <<>>
  /\ SliceLast(Head(last.queue).context, 9) = VesselMmsi
  /\ VesselMmsi \in DOMAIN targets

(***************************************************************************)
(* C21: the alarm type                                                     *)
(***************************************************************************)
\* the names of the alarms in the order in which alarmType lists them
AlarmNames == <<"guard", "cpa", "sart", "mob", "epirb">>

\* the alarm named by name fired for the target t
Fired(t, name) ==
  CASE name = "guard" -> Flag(t, "guardAlarm")
    [] name = "cpa" -> Flag(t, "collisionAlarm") \/ Flag(t, "collisionWarning")
    [] name = "sart" -> Flag(t, "sartAlarm")
    [] name = "mob" -> Flag(t, "mobAlarm")
    [] name = "epirb" -> Flag(t, "epirbAlarm")

\* the names AlarmNames[i..5] of the alarms that fired for t, in that order
RECURSIVE FiredFrom(_, _)
FiredFrom(t, i) ==
  IF i > Len(AlarmNames) THEN <<>>
  ELSE (IF Fired(t, AlarmNames[i]) THEN <<AlarmNames[i]>> ELSE <<>>)
       \o FiredFrom(t, i + 1)

\* C21: after a target is classified, its alarmType lists exactly the alarms
\* that fired, in the order guard, cpa, sart, mob, epirb ('cpa' for the
\* collision alarm or the collision warning), it is null when none fired,
\* and it is null exactly when alarmState is null.
C21_AlarmTypeListsFiredAlarms ==
  \A mmsi \in DOMAIN targets :
    Classified(mmsi) =>
      LET t == targets[mmsi]
      IN /\ IF FiredFrom(t, 1) = <<>> THEN ~Has(t, "alarmType")
            ELSE FieldIs(t, "alarmType", FiredFrom(t, 1))
         /\ Has(t, "alarmType") <=> Has(t, "alarmState")

\* a classified beacon in the guard zone: its alarmType is "guard,sart" and
\* its alarmState is not null
C21_Witness ==
  \E mmsi \in DOMAIN targets :
    /\ Classified(mmsi)
    /\ Flag(targets[mmsi], "guardAlarm")
    /\ Flag(targets[mmsi], "sartAlarm")
    /\ FieldIs(targets[mmsi], "alarmType", <<"guard", "sart">>)
    /\ StateIs(targets[mmsi], "danger")

(***************************************************************************)
(* C22: a tick that raises the no-fix error                                *)
(***************************************************************************)
\* C22: in every store, when updateDerivedData raises the no-fix error, the
\* store holds the same targets after the call and every non-self target is
\* the object it was before it, field by field: range, bearing, CPA, TCPA,
\* alarm fields and order are those of the previous tick, and nothing has
\* been classified.
C22_NoFixLeavesOtherTargets ==
  \E r \in {updateDerivedData(targets, SelfMmsi, collisionProfiles, now)} :
    r.threw =>
      /\ DOMAIN r.targets = DOMAIN targets
      /\ \A mmsi \in NonSelf : r.targets[mmsi] = targets[mmsi]

\* a tick has raised the no-fix error with a self target in the store, and
\* a target that an earlier tick classified has a position
C22_Witness ==
  /\ Ticked
  /\ last.threw
  /\ SelfMmsi \in DOMAIN targets
  /\ \E mmsi \in NonSelf :
       /\ Has(targets[mmsi], "order")
       /\ Has(targets[mmsi], "latitude")
       /\ Has(targets[mmsi], "range")

(***************************************************************************)
(* C23: the bulk snapshot of the web page                                  *)
(*                                                                         *)
(* The page loads /signalk/v1/api/vessels and atons once, before it        *)
(* connects to the stream and starts its timer.  The snapshot maps ids to  *)
(* vessel objects; for-in visits them in insertion order, and two ids may  *)
(* carry the same mmsi.  The plugin reports no muted target.               *)
(***************************************************************************)
\* the timestamp of the position of a snapshot entry at the clock value
\* clock (ms): just reported, exactly TARGET_MAX_AGE old, one second older
StampOf(code, clock) ==
  CASE code = "fresh" -> clock
    [] code = "atMax" -> clock - TARGET_MAX_AGE * 1000
    [] code = "stale" -> clock - (TARGET_MAX_AGE * 1000 + 1000)

\* a vessel object of the snapshot: without navigation data when code is
\* "none", else with a speed and a position, the own vessel at the origin
\* and any other 1000 m north of it
Vessel(mmsi, code, named, clock) ==
  LET base == IF named THEN [mmsi |-> mmsi, name |-> <<"A">>] ELSE [mmsi |-> mmsi]
  IN IF code = "none" THEN base
     ELSE Put(base, "navigation",
              [position |-> [timestamp |-> StampOf(code, clock),
                             value |-> IF mmsi = SelfMmsi THEN Pos(0, 0)
                                       ELSE Pos(100, 0)],
               speedOverGround |-> [value |-> 2]])

\* the vessel objects and the snapshots of at most two of them
SnapshotVessels(clock) ==
  {Vessel(mmsi, code, named, clock) :
     mmsi \in {SelfMmsi, VesselMmsi, SartMmsi},
     code \in {"fresh", "atMax", "stale", "none"}, named \in BOOLEAN}

Snapshots(clock) ==
  {<<>>} \cup {<<v>> : v \in SnapshotVessels(clock)}
         \cup {<<v, w>> : v \in SnapshotVessels(clock), w \in SnapshotVessels(clock)}

\* vessel.navigation?.position is present
HasPositionReport(vessel) ==
  Has(vessel, "navigation") /\ Has(vessel.navigation, "position")

\* the age Math.round((Date.now() - target.lastSeenDate) / 1000) of the
\* position of a vessel object is a number and at least TARGET_MAX_AGE
AgedOut(vessel, clock) ==
  /\ HasPositionReport(vessel)
  /\ Has(vessel.navigation.position, "timestamp")
  /\ RoundDiv(clock - vessel.navigation.position.timestamp, 1000) >= TARGET_MAX_AGE

\* vessel.navigation?.[f]?.value
NavigationValue(target, g, vessel, f) ==
  IF Has(vessel, "navigation") /\ Has(vessel.navigation, f)
    THEN Assign(target, g, vessel.navigation[f], "value")
    ELSE Del(target, g)

\* the assignments behind the test of the age, for a vessel object that has
\* none of communication, design, atonType, sensors, virtual, offPosition
\* and registrations
CopyVessel(target, vessel) ==
  LET t1 == Put(target, "mmsi", vessel.mmsi)
      t2 == Put(t1, "name", IF TruthyChars(vessel, "name") THEN vessel.name
                            ELSE <<"<">> \o vessel.mmsi \o <<">">>)
      t3 == NavigationValue(t2, "sog", vessel, "speedOverGround")
      t4 == NavigationValue(t3, "cog", vessel, "courseOverGroundTrue")
      t5 == NavigationValue(t4, "hdg", vessel, "headingTrue")
      t6 == NavigationValue(t5, "rot", vessel, "rateOfTurn")
      t7 == Put(Del(Put(t6, "callsign", "---"), "typeId"), "type", "---")
      t8 == Del(Del(Put(t7, "aisClass", "A"), "isVirtual"), "isOffPosition")
      t9 == Put(Del(Del(Put(t8, "status", "---"), "length"), "beam"), "draft", "---")
      t10 == Del(Put(Put(t9, "destination", "---"), "eta", "---"), "imo")
  IN IF HasPositionReport(vessel)
       THEN Assign(Assign(t10, "latitude", vessel.navigation.position.value, "latitude"),
                   "longitude", vessel.navigation.position.value, "longitude")
       ELSE Del(Del(t10, "latitude"), "longitude")

\* one turn of the loop of ingestRawVesselData: the target of the store, or
\* a new object, gets lastSeenDate first; an aged-out vessel is skipped
\* after that; every other vessel is copied and set
IngestVessel(tgts, vessel, clock) ==
  LET known == vessel.mmsi \in DOMAIN tgts
      target == IF known THEN tgts[vessel.mmsi] ELSE EmptyObj
      stamped == IF HasPositionReport(vessel)
                   THEN Assign(target, "lastSeenDate", vessel.navigation.position,
                               "timestamp")
                   ELSE Del(target, "lastSeenDate")
  IN IF AgedOut(vessel, clock)
       THEN IF known THEN [tgts EXCEPT ![vessel.mmsi] = stamped] ELSE tgts
       ELSE Put(tgts, vessel.mmsi, CopyVessel(stamped, vessel))

\* the stores ingestRawVesselData(vessels) passes through: before the loop
\* and after each of its turns
RECURSIVE IngestStores(_, _, _, _)
IngestStores(tgts, vessels, i, clock) ==
  IF i > Len(vessels) THEN <<tgts>>
  ELSE <<tgts>> \o IngestStores(IngestVessel(tgts, vessels[i], clock), vessels, i + 1, clock)

\* ingestRawVesselData(vessels): the store afterwards
ingestRawVesselData(tgts, vessels, clock) ==
  IngestStores(tgts, vessels, 1, clock)[Len(vessels) + 1]

InitBulk ==
  /\ targets = EmptyMap
  /\ collisionProfiles = Profiles("coastal")
  /\ now = 2000000
  /\ advances = 0
  /\ last = [op |-> "start"]

\* initialDataLoad(), awaited before the stream and the timer start
InitialDataLoad ==
  /\ last.op = "start"
  /\ \E vessels \in Snapshots(now) :
       /\ targets' = ingestRawVesselData(targets, vessels, now)
       /\ last' = [op |-> "initialDataLoad", vessels |-> vessels,
                   stores |-> IngestStores(targets, vessels, 1, now)]
  /\ UNCHANGED <<collisionProfiles, now, advances>>

\* handleDelta of the stream
BulkHandleDelta ==
  /\ last.op # "start"
  /\ \E i \in 1..Len(LoopDeltas(now)) :
       \E r \in {processDelta(LoopDeltas(now)[i], targets)} :
         /\ targets' = r.targets
         /\ last' = [op |-> "processDelta", ret |-> r.ret]
  /\ UNCHANGED <<collisionProfiles, now, advances>>

\* the timer
BulkUpdateLoop ==
  /\ last.op # "start"
  /\ \E r \in {updateLoop(targets, SelfMmsi, collisionProfiles, now)} :
       /\ targets' = r.targets
       /\ last' = [op |-> "updateLoop", threw |-> r.threw,
                   removed |-> DOMAIN targets \ DOMAIN r.targets]
  /\ UNCHANGED <<collisionProfiles, now, advances>>

NextBulk == InitialDataLoad \/ BulkHandleDelta \/ BulkUpdateLoop

SpecBulk == InitBulk /\ [][NextBulk]_vars

\* C23: in the bulk load, a vessel object whose position is older than the
\* maximum age leaves the store as it was before its turn: it creates no
\* target and changes no field of a target that exists under its mmsi.
C23_AsClaimed ==
  last.op = "initialDataLoad" =>
    \A i \in 1..Len(last.vessels) :
      (/\ HasPositionReport(last.vessels[i])
       /\ 2 * (now - last.vessels[i].navigation.position.timestamp)
            >= 2 * TARGET_MAX_AGE * 1000 + 1000) =>
        last.stores[i + 1] = last.stores[i]

\* the part of C23 that holds: such a vessel object creates no target
C23_AgedOutCreatesNoTarget ==
  last.op = "initialDataLoad" =>
    \A i \in 1..Len(last.vessels) :
      AgedOut(last.vessels[i], now) =>
        DOMAIN last.stores[i + 1] = DOMAIN last.stores[i]

(***************************************************************************)
(* C24: the CPA adjustment of the order                                    *)
(***************************************************************************)
\* the order evaluateAlarms gives the target t when its CPA is cpa and all
\* its other inputs are those of t
OrderAtCpa(t, cpa) ==
  evaluateAlarms(Put(t, "cpa", cpa), collisionProfiles).order

\* C24: under a complete profile, a target with a CPA gets an order that is
\* not higher when its CPA is smaller and everything else is equal, down to a
\* CPA of exactly 0; and at a CPA of 0 the adjustment subtracts CPA_WEIGHT.
C24_AsClaimed ==
  ProfileComplete(collisionProfiles) =>
    \A mmsi \in DOMAIN targets :
      Has(targets[mmsi], "cpa") =>
        /\ \A cpa \in AlarmCpas :
             cpa < targets[mmsi].cpa =>
               OrderAtCpa(targets[mmsi], cpa) <= OrderAtCpa(targets[mmsi], targets[mmsi].cpa)
        /\ CpaAdjust(Put(targets[mmsi], "cpa", 0)) = PRIORITY_WEIGHTS.CPA_WEIGHT

\* the part of C24 that holds: the same for every smaller CPA above 0
C24_OrderFallsWithPositiveCpa ==
  ProfileComplete(collisionProfiles) =>
    \A mmsi \in DOMAIN targets :
      Has(targets[mmsi], "cpa") =>
        \A cpa \in AlarmCpas \ {0} :
          cpa < targets[mmsi].cpa =>
            OrderAtCpa(targets[mmsi], cpa) <= OrderAtCpa(targets[mmsi], targets[mmsi].cpa)

(***************************************************************************)
(* C25: age-out under fair ticking                                         *)
(*                                                                         *)
(* last.due holds, in every state, the store that the timer callback of    *)
(* the program makes of the store at the clock value now (DueIsTick), so   *)
(* that the timer step itself only installs it.                            *)
(***************************************************************************)
\* the store after updateLoop() of the web page / refreshDataModel() of the
\* plugin
TickOf(program, tgts, clock) ==
  IF program = "web"
    THEN updateLoop(tgts, SelfMmsi, collisionProfiles, clock).targets
    ELSE refreshDataModel(tgts, SelfMmsi, collisionProfiles, clock, "none").targets

InitAging ==
  /\ targets = EmptyMap
  /\ collisionProfiles = Profiles("coastal")
  /\ now = 0
  /\ advances = 0
  /\ \E program \in Programs :
       last = [op |-> "start", program |-> program, due |-> EmptyMap]

\* the subscription callback of the plugin / handleDelta of the web page
AgingDelta ==
  /\ \E i \in 1..Len(LoopDeltas(now)) :
       \E r \in {processDelta(LoopDeltas(now)[i], targets)} :
         /\ targets' = r.targets
         /\ last' = [op |-> "processDelta", program |-> last.program,
                     due |-> TickOf(last.program, r.targets, now)]
  /\ UNCHANGED <<collisionProfiles, now, advances>>

\* the timer of either program
AgingTick ==
  /\ targets' = last.due
  /\ last' = [op |-> "tick", program |-> last.program, due |-> last.due]
  /\ UNCHANGED <<collisionProfiles, now, advances>>

AgingClock ==
  /\ advances < MaxAdvances
  /\ \E step \in ClockSteps :
       /\ now' = now + step
       /\ last' = [op |-> "clock", program |-> last.program,
                   due |-> TickOf(last.program, targets, now + step)]
  /\ advances' = advances + 1
  /\ UNCHANGED <<targets, collisionProfiles>>

NextAging == AgingDelta \/ AgingTick \/ AgingClock

\* the timer keeps firing
SpecAging == InitAging /\ [][NextAging]_vars /\ WF_vars(AgingTick)

\* in every state last.due is the store the tick makes of the store
DueIsTick == last.due = TickOf(last.program, targets, now)

\* the target mmsi is in the store and the age of its last position report
\* exceeds the maximum age
AgedInStore(mmsi) ==
  mmsi \in DOMAIN targets /\ ReportTooOld(targets[mmsi])

\* C25: under fair ticking, in every state of the self fix, a non-self
\* target whose age exceeds the maximum age is eventually removed from the
\* store, unless a further position report makes it young again.
C25_AsClaimed ==
  \A mmsi \in LoopMmsis \ {SelfMmsi} :
    AgedInStore(mmsi) ~> ~AgedInStore(mmsi)

\* the self target has a position whose report is not older than
\* GPS_STALE_SECONDS
SelfFixUsable ==
  /\ SelfMmsi \in DOMAIN targets
  /\ Has(targets[SelfMmsi], "latitude")
  /\ Has(targets[SelfMmsi], "longitude")
  /\ Has(targets[SelfMmsi], "lastSeenDate")
  /\ 2 * (now - targets[SelfMmsi].lastSeenDate) < 2 * GPS_STALE_SECONDS * 1000 + 1000

\* the part of C25 that holds: the same while the self target has a usable
\* fix
C25_RemovedWhileSelfHasFix ==
  \A mmsi \in LoopMmsis \ {SelfMmsi} :
    AgedInStore(mmsi) ~> (~AgedInStore(mmsi) \/ ~SelfFixUsable)

(***************************************************************************)
(* C26: a root-path value with more than one identity field                *)
(***************************************************************************)
\* root-path values that carry more than one of name, callsign and imo
IdentityValues ==
  << [name |-> "ANNA",
      communication |-> [callsignVhf |-> "PA1"],
      registrations |-> [imo |-> <<"I", "M", "O", " ", "9">>]],
     [name |-> "ANNA", communication |-> [callsignVhf |-> "PA1"]],
     [name |-> "ANNA", registrations |-> [imo |-> <<"I", "M", "O", " ", "9">>]],
     [communication |-> [callsignVhf |-> "PA1"],
      registrations |-> [imo |-> <<"I", "M", "O", " ", "9">>]] >>

\* the target mmsi after the delta that carries the one root-path value v
AfterRootValue(mmsi, v) ==
  processDelta(DeltaWith(mmsi, now, <<Val("", v)>>), targets).targets[mmsi]

\* the target has the identity fields that the root-path value v carries
TakesIdentityOf(t, v) ==
  /\ TruthyStr(v, "name") => FieldIs(t, "name", v.name)
  /\ HasCallsign(v) => FieldIs(t, "callsign", v.communication.callsignVhf)
  /\ HasImo(v) => FieldIs(t, "imo", ReplaceImo(v.registrations.imo))

\* C26: in every store either program reaches, a delta whose single root-path
\* value carries more than one of name, communication.callsignVhf and
\* registrations.imo leaves the target (known or new) with the name, the
\* callsign and the imo (without its "IMO" prefix) that the value carries.
C26_AsClaimed ==
  \A mmsi \in LoopMmsis :
    \A i \in 1..Len(IdentityValues) :
      \E t \in {AfterRootValue(mmsi, IdentityValues[i])} :
        TakesIdentityOf(t, IdentityValues[i])

\* what the switch does instead: of the identity fields a root-path value
\* carries, the first in the order name, callsign, imo is written and the
\* others are left as they were
C26_FirstIdentityFieldOnly ==
  \A mmsi \in LoopMmsis :
    \A i \in 1..Len(IdentityValues) :
      \E t \in {AfterRootValue(mmsi, IdentityValues[i])} :
        LET v == IdentityValues[i]
            before == IF mmsi \in DOMAIN targets THEN targets[mmsi] ELSE EmptyObj
        IN IF TruthyStr(v, "name")
             THEN /\ FieldIs(t, "name", v.name)
                  /\ SameField(before, t, "callsign")
                  /\ SameField(before, t, "imo")
             ELSE /\ FieldIs(t, "callsign", v.communication.callsignVhf)
                  /\ SameField(before, t, "name")
                  /\ SameField(before, t, "imo")

(***************************************************************************)
(* C27: the notifications of the plugin                                    *)
(***************************************************************************)
\* the deltas of the plugin's subscription: those of LoopDeltas, and the
\* vessel reporting a position 500 m north of the own vessel
NotifyDeltas(clock) ==
  LoopDeltas(clock)
  \o << [context |-> Ctx(VesselMmsi),
         updates |-> <<Upd(clock, <<Val("navigation.position", Pos(50, 0))>>)>>] >>

\* no notification of the target is on record
NoNotice == <<>>

\* the alarm state and type of a target as a notification names them
NoticeOf(target) ==
  <<target.alarmState, Nullable(target, "alarmType")>>

\* the record of the notifications after a step that leaves the store tgts:
\* a notification sent by the step is put on record, and the record of a
\* target is dropped when the target is not in the store, has no alarm or is
\* muted
Observed(notified, sent, tgts) ==
  [mmsi \in LoopMmsis |->
     IF \/ mmsi \notin DOMAIN tgts
        \/ ~Has(tgts[mmsi], "alarmState")
        \/ TruthyBool(tgts[mmsi], "alarmIsMuted")
       THEN NoNotice
     ELSE IF \E n \in sent : n.mmsi = mmsi
       THEN <<NoticeOf(tgts[mmsi])>>
     ELSE notified[mmsi]]

InitNotify ==
  /\ targets = EmptyMap
  /\ collisionProfiles = Profiles("coastal")
  /\ now = 0
  /\ advances = 0
  /\ last = [op |-> "start", shows |-> "none", sent |-> {},
             notified |-> [mmsi \in LoopMmsis |-> NoNotice]]

\* the subscription callback
NotifyDelta ==
  \E i \in 1..Len(NotifyDeltas(now)) :
    \E r \in {processDelta(NotifyDeltas(now)[i], targets)} :
      /\ targets' = r.targets
      /\ last' = [op |-> "processDelta", shows |-> last.shows, sent |-> {},
                  notified |-> Observed(last.notified, {}, r.targets)]
      /\ UNCHANGED <<collisionProfiles, now, advances>>

\* the timer: refreshDataModel; sent holds, for every notification of a
\* target, the alarm state and type the message names
NotifyTick ==
  \E r \in {refreshDataModel(targets, SelfMmsi, collisionProfiles, now, last.shows)} :
    \E mid \in {IF r.sent = {} THEN targets
                ELSE updateDerivedData(targets, SelfMmsi, collisionProfiles, now).targets} :
      /\ targets' = r.targets
      /\ \E shows \in r.shows :
           last' = [op |-> "refreshDataModel", shows |-> shows,
                    outcome |-> r.outcome,
                    sent |-> {[mmsi |-> n.mmsi, notice |-> NoticeOf(mid[n.mmsi])] :
                                n \in r.sent},
                    notified |-> Observed(last.notified, r.sent, r.targets)]
      /\ UNCHANGED <<collisionProfiles, now, advances>>

\* POST /muteAllAlarms and PUT /setAlarmIsMuted
NotifyMute ==
  /\ \/ targets' = muteAllAlarms(targets)
     \/ \E mmsi \in LoopMmsis \ {SelfMmsi}, alarmIsMuted \in BOOLEAN :
          targets' = setAlarmIsMuted(targets, mmsi, alarmIsMuted)
  /\ last' = [op |-> "mute", shows |-> last.shows, sent |-> {},
              notified |-> Observed(last.notified, {}, targets')]
  /\ UNCHANGED <<collisionProfiles, now, advances>>

\* time passes
NotifyClock ==
  /\ advances < MaxAdvances
  /\ \E step \in ClockSteps : now' = now + step
  /\ advances' = advances + 1
  /\ last' = [op |-> "clock", shows |-> last.shows, sent |-> {},
              notified |-> last.notified]
  /\ UNCHANGED <<targets, collisionProfiles>>

NextNotify == NotifyDelta \/ NotifyTick \/ NotifyMute \/ NotifyClock

SpecNotify == InitNotify /\ [][NextNotify]_vars

\* C27: a tick of the plugin sends a notification for a target only when the
\* alarm state or the alarm type the notification names differs from those
\* of the notification last sent for the target, or when since that
\* notification the target's alarm was seen cleared or muted (or the target
\* was removed): an unmuted target whose alarm state and type are those last
\* notified is not notified again.
C27_NotifiedOnlyOnChange ==
  [][\A n \in last'.sent : last.notified[n.mmsi] # <<n.notice>>]_vars

\* a completed tick has sent no notification while the store holds the
\* unmuted SART in danger, whose notification of an earlier tick is on record
C27_Witness ==
  /\ last.op = "refreshDataModel"
  /\ last.outcome = "done"
  /\ last.sent = {}
  /\ SartMmsi \in DOMAIN targets
  /\ FieldIs(targets[SartMmsi], "alarmState", "danger")
  /\ ~TruthyBool(targets[SartMmsi], "alarmIsMuted")
  /\ last.notified[SartMmsi] = <<NoticeOf(targets[SartMmsi])>>

(***************************************************************************)
(* C28: the WebSocket stream of the web page and its reconnects            *)
(***************************************************************************)
WS_RECONNECT_BASE_DELAY == 1000

WS_RECONNECT_MAX_DELAY == 30000

\* how many sockets the page opens in the model
MaxConnects == 8

\* the delay of onclose without the cap
ReconnectDelayUncapped(attempts) ==
  WS_RECONNECT_BASE_DELAY * 2 ^ (attempts - 1)

\* Math.min(WS_RECONNECT_BASE_DELAY * Math.pow(2, wsReconnectAttempts - 1),
\*          WS_RECONNECT_MAX_DELAY)
ReconnectDelay(attempts) ==
  Min(WS_RECONNECT_BASE_DELAY * 2 ^ (attempts - 1), WS_RECONNECT_MAX_DELAY)

\* connectToSignalKStream(): a new socket, which is connecting
connectToSignalKStream(page) ==
  [page EXCEPT !.sockets = Append(page.sockets, "connecting"),
               !.status = "reconnecting"]

\* onopen
onopen(page, i) ==
  [page EXCEPT !.sockets[i] = "open",
               !.wsReconnectAttempts = 0,
               !.status = "connected",
               !.events = Append(page.events, "open")]

\* onclose: the counter is incremented and one timer is set
onclose(page, i) ==
  [page EXCEPT !.sockets[i] = "closed",
               !.wsReconnectAttempts = page.wsReconnectAttempts + 1,
               !.timers = Append(page.timers,
                                 ReconnectDelay(page.wsReconnectAttempts + 1)),
               !.status = "reconnecting",
               !.events = Append(page.events, "close")]

\* onmessage: a delta with an update list is handed to handleDelta
onmessage(delta, tgts) ==
  IF Has(delta, "updates") THEN processDelta(delta, tgts).targets ELSE tgts

\* the page after initialDataLoad, before the stream is started
InitSocket ==
  /\ targets = EmptyMap
  /\ collisionProfiles = Profiles("coastal")
  /\ now = 0
  /\ advances = 0
  /\ last = [op |-> "start", sockets |-> <<>>, wsReconnectAttempts |-> 0,
             timers |-> <<>>, status |-> "none", events |-> <<>>]

\* the page with the name of the handler that ran last
After(op, page) == [page EXCEPT !.op = op]

\* the call of connectToSignalKStream at startup
StartStream ==
  /\ last.op = "start"
  /\ last' = After("connect", connectToSignalKStream(last))
  /\ UNCHANGED <<targets, collisionProfiles, now, advances>>

\* a socket that is connecting opens
OnOpen ==
  /\ \E i \in 1..Len(last.sockets) :
       /\ last.sockets[i] = "connecting"
       /\ last' = After("onopen", onopen(last, i))
  /\ UNCHANGED <<targets, collisionProfiles, now, advances>>

\* an open socket delivers a message
OnMessage ==
  /\ \E i \in 1..Len(last.sockets) : last.sockets[i] = "open"
  /\ \E k \in 1..Len(LoopDeltas(now)) :
       targets' = onmessage(LoopDeltas(now)[k], targets)
  /\ last' = After("onmessage", last)
  /\ UNCHANGED <<collisionProfiles, now, advances>>

\* a socket reports an error: only the status indicator changes
OnError ==
  /\ \E i \in 1..Len(last.sockets) : last.sockets[i] \in {"connecting", "open"}
  /\ last' = After("onerror", [last EXCEPT !.status = "disconnected"])
  /\ UNCHANGED <<targets, collisionProfiles, now, advances>>

\* a socket that is connecting or open closes: its close event fires once
OnClose ==
  /\ \E i \in 1..Len(last.sockets) :
       /\ last.sockets[i] \in {"connecting", "open"}
       /\ last' = After("onclose", onclose(last, i))
  /\ UNCHANGED <<targets, collisionProfiles, now, advances>>

\* a reconnect timer fires
ReconnectTimer ==
  /\ last.timers # <<>>
  /\ Len(last.sockets) < MaxConnects
  /\ last' = After("connect",
                   connectToSignalKStream([last EXCEPT !.timers = Tail(last.timers)]))
  /\ UNCHANGED <<targets, collisionProfiles, now, advances>>

NextSocket ==
  \/ StartStream
  \/ OnOpen
  \/ OnMessage
  \/ OnError
  \/ OnClose
  \/ ReconnectTimer

SpecSocket == InitSocket /\ [][NextSocket]_vars

\* the number of close events at the end of the event list, none of them
\* followed by an open
RECURSIVE TrailingCloses(_)
TrailingCloses(events) ==
  IF events = <<>> \/ events[Len(events)] = "open" THEN 0
  ELSE 1 + TrailingCloses(SubSeq(events, 1, Len(events) - 1))

\* the sockets that are connecting or open
LiveSockets == {i \in 1..Len(last.sockets) : last.sockets[i] # "closed"}

\* C28: after the n-th close in a row without an open in between, exactly
\* one reconnect is pending and its delay is 1000 * 2^(n-1) ms, at most
\* 30000 ms; after an open the counter is 0; and at no time is more than one
\* reconnect pending, more than one socket connecting or open, or a
\* reconnect pending while a socket is connecting or open.
C28_ReconnectBackoff ==
  /\ last.op = "onclose" =>
       \E n \in {TrailingCloses(last.events)} :
         /\ n >= 1
         /\ last.timers = <<IF n >= 6 THEN 30000 ELSE 1000 * 2 ^ (n - 1)>>
  /\ last.op = "onopen" => last.wsReconnectAttempts = 0
  /\ last.wsReconnectAttempts = TrailingCloses(last.events)
  /\ Len(last.timers) + Cardinality(LiveSockets) <= 1

\* the sixth close in a row has set the timer of 30 s, after a socket had been
\* open before and targets had arrived over it
C28_Witness ==
  /\ last.op = "onclose"
  /\ TrailingCloses(last.events) = 6
  /\ last.timers = <<30000>>
  /\ \E i \in 1..Len(last.events) : last.events[i] = "open"
  /\ targets # EmptyMap

(***************************************************************************)
(* C29: the stored CPA and TCPA after a tick                               *)
(***************************************************************************)
\* C29: after every completed tick every target other than the self target
\* has a CPA exactly when it has a TCPA, and a TCPA it has is greater than 0
\* and at most 10800 s.
C29_AsClaimed ==
  TickCompleted =>
    \A mmsi \in NonSelf :
      /\ Has(targets[mmsi], "cpa") <=> Has(targets[mmsi], "tcpa")
      /\ Has(targets[mmsi], "tcpa") =>
           (targets[mmsi].tcpa > 0 /\ targets[mmsi].tcpa <= 10800)

\* what holds instead: CPA and TCPA are stored together, and the stored TCPA,
\* which is rounded to whole seconds, lies between 0 and 10800 s inclusive
C29_TcpaWithinHorizon ==
  TickCompleted =>
    \A mmsi \in NonSelf :
      /\ Has(targets[mmsi], "cpa") <=> Has(targets[mmsi], "tcpa")
      /\ Has(targets[mmsi], "tcpa") =>
           (targets[mmsi].tcpa >= 0 /\ targets[mmsi].tcpa <= 10800)

\* a tick has stored a closest-approach solution with a TCPA of 0 for a
\* target 10 m away, and has raised neither a collision alarm nor a collision
\* warning nor an alarm state for it
C29_StoredTcpaOfZero ==
  /\ TickCompleted
  /\ \E mmsi \in NonSelf :
       /\ FieldIs(targets[mmsi], "tcpa", 0)
       /\ FieldIs(targets[mmsi], "cpa", 10)
       /\ FieldIs(targets[mmsi], "collisionAlarm", FALSE)
       /\ FieldIs(targets[mmsi], "collisionWarning", FALSE)
       /\ ~Has(targets[mmsi], "alarmState")

(***************************************************************************)
(* C30: targets without a position                                         *)
(***************************************************************************)
\* latitude or longitude of the target is absent
HasNoPosition(t) == ~Has(t, "latitude") \/ ~Has(t, "longitude")

\* C30: after every completed tick a target other than the self target whose
\* latitude or longitude is absent has neither CPA nor TCPA and raises
\* neither the collision alarm nor the collision warning.
C30_AsClaimed ==
  TickCompleted =>
    \A mmsi \in NonSelf :
      HasNoPosition(targets[mmsi]) =>
        /\ ~Has(targets[mmsi], "cpa")
        /\ ~Has(targets[mmsi], "tcpa")
        /\ ~FieldIs(targets[mmsi], "collisionAlarm", TRUE)
        /\ ~FieldIs(targets[mmsi], "collisionWarning", TRUE)

\* what holds instead: a target without position has neither range nor
\* bearing and raises no guard alarm, and it has a CPA only when the self
\* target is away from the place the target is projected to with 0 for the
\* absent coordinate
C30_NoRangeWithoutPosition ==
  TickCompleted =>
    \A mmsi \in NonSelf :
      HasNoPosition(targets[mmsi]) =>
        /\ ~Has(targets[mmsi], "range")
        /\ ~Has(targets[mmsi], "bearing")
        /\ ~FieldIs(targets[mmsi], "guardAlarm", TRUE)
        /\ Has(targets[mmsi], "cpa") =>
             \/ targets[SelfMmsi].x # targets[mmsi].x
             \/ targets[SelfMmsi].y # targets[mmsi].y

\* a tick has raised the collision alarm for a vessel that never reported a
\* position
C30_AlarmWithoutPosition ==
  /\ TickCompleted
  /\ VesselMmsi \in DOMAIN targets
  /\ ~Has(targets[VesselMmsi], "latitude")
  /\ ~Has(targets[VesselMmsi], "longitude")
  /\ FieldIs(targets[VesselMmsi], "collisionAlarm", TRUE)
  /\ FieldIs(targets[VesselMmsi], "alarmState", "danger")

====
